---- MODULE Spec2Model ----
(***************************************************************************)
(* Birdle (puzzle-runner): the fragment model (src/src/puzzle.js) and the  *)
(* session / simulation loop of the game page (src/src/world.js, the       *)
(* revision that starts at line 1197).                                     *)
(*                                                                         *)
(* Strings are sequences of UTF-16 code units, each unit a one-character   *)
(* TLA+ string, so that phrase.split('') and Array.join('') are the        *)
(* element-wise views of the same sequence.  JavaScript indices are        *)
(* 0-based: JS index i is element i+1 of the TLA+ sequence.                *)
(***************************************************************************)
EXTENDS Integers, Sequences, FiniteSets, TLC

(***************************************************************************)
(* Bounds of the fragment-model specification.                             *)
(***************************************************************************)
MaxLen == 3

SPACE == " "
TAB == "\t"
PLACEHOLDER == "_"

\* Code units the payloads are built from: two letters in both cases, the
\* space, another whitespace character and the placeholder glyph itself.
Alphabet == {"A", "B", SPACE, TAB, PLACEHOLDER}

RECURSIVE SeqsUpTo(_, _)
SeqsUpTo(S, n) ==
  IF n = 0 THEN {<<>>}
  ELSE LET shorter == SeqsUpTo(S, n - 1)
       IN shorter \cup {Append(s, c) : s \in {t \in shorter : Len(t) = n - 1}, c \in S}

\* The payload of scenario A of the specification, "AB BA".
ScenarioPhrase == <<"A", "B", SPACE, "B", "A">>

Payloads == SeqsUpTo(Alphabet, MaxLen) \cup {ScenarioPhrase}

(***************************************************************************)
(* Puzzle (src/src/puzzle.js)                                              *)
(***************************************************************************)
\* splitPhrase: phrase.split('') - one piece per code unit.
splitPhrase(phrase) == [i \in 1..Len(phrase) |-> phrase[i]]

\* A plausible slip: the spaces are not collected.
autoCollectNothing(pcs, coll) == coll

\* autoCollectSpaces: marks every piece that is exactly ' '.
autoCollectSpaces(pcs, coll) ==
  [i \in 1..Len(pcs) |-> IF pcs[i] = SPACE THEN TRUE ELSE coll[i]]

\* constructor: collectedPieces = new Array(n).fill(false), then autoCollectSpaces.
NewCollected(pcs) == autoCollectSpaces(pcs, [i \in 1..Len(pcs) |-> FALSE])

\* A plausible slip: collect only the index itself, not its duplicates.
CollectPieceOnlyIndex(pcs, coll, index) ==
  IF index < 0 \/ index >= Len(pcs)
  THEN [collected |-> coll, ret |-> FALSE]
  ELSE [collected |-> [coll EXCEPT ![index + 1] = TRUE], ret |-> ~coll[index + 1]]

\* A plausible slip: report success whenever the index is in range.
CollectPieceAlwaysTrue(pcs, coll, index) ==
  IF index < 0 \/ index >= Len(pcs)
  THEN [collected |-> coll, ret |-> FALSE]
  ELSE [collected |-> [i \in 1..Len(pcs) |-> coll[i] \/ pcs[i] = pcs[index + 1]],
        ret |-> TRUE]

\* collectPiece(index): the new collectedPieces and the returned boolean.
CollectPiece(pcs, coll, index) ==
  IF index < 0 \/ index >= Len(pcs)
  THEN [collected |-> coll, ret |-> FALSE]
  ELSE LET target == pcs[index + 1]
       IN [collected |-> [i \in 1..Len(pcs) |-> coll[i] \/ pcs[i] = target],
           ret |-> \E i \in 1..Len(pcs) : pcs[i] = target /\ ~coll[i]]

\* A plausible slip: reset clears every entry, spaces included.
ResetCollectedAll(pcs, coll) == [i \in 1..Len(pcs) |-> FALSE]

\* A plausible slip: reset leaves the array as it is.
ResetCollectedNothing(pcs, coll) == coll

\* resetCollected(): spaces stay collected, everything else is cleared.
ResetCollected(pcs, coll) == [i \in 1..Len(pcs) |-> pcs[i] = SPACE]

\* A plausible slip: an uncollected piece is shown as itself.
ReconstructedShowsAll(pcs, coll) == [i \in 1..Len(pcs) |-> pcs[i]]

\* getReconstructedPhrase(): the collected pieces, '_' for the others.
GetReconstructedPhrase(pcs, coll) ==
  [i \in 1..Len(pcs) |-> IF coll[i] THEN pcs[i] ELSE PLACEHOLDER]

\* isComplete(): every entry of collectedPieces is true.
IsComplete(coll) == \A i \in 1..Len(coll) : coll[i]

\* getNonSpaceCount(): the pieces other than ' '.
GetNonSpaceCount(pcs) == Cardinality({i \in 1..Len(pcs) : pcs[i] # SPACE})

\* getCollectedNonSpaceCount(): the collected ones among them.
GetCollectedNonSpaceCount(pcs, coll) ==
  Cardinality({i \in 1..Len(pcs) : pcs[i] # SPACE /\ coll[i]})

\* getCollectedCount(): the number of true entries.
GetCollectedCount(coll) == Cardinality({i \in 1..Len(coll) : coll[i]})

\* A plausible slip (the earlier getNonSpaceIndices): every non-space index.
GetNonSpaceIndices(pcs) ==
  LET F[i \in 0..Len(pcs)] ==
        IF i = 0 THEN <<>>
        ELSE IF pcs[i] # SPACE THEN Append(F[i - 1], i - 1) ELSE F[i - 1]
  IN F[Len(pcs)]

\* getUniqueNonSpaceIndices(): the forEach loop with its `seen` set; F[i] is
\* the pair <<indices, seen>> after the first i pieces.
GetUniqueNonSpaceIndices(pcs) ==
  LET F[i \in 0..Len(pcs)] ==
        IF i = 0 THEN [indices |-> <<>>, seen |-> {}]
        ELSE LET prev == F[i - 1]
                 piece == pcs[i]
             IN IF piece # SPACE /\ piece \notin prev.seen
                THEN [indices |-> Append(prev.indices, i - 1),
                      seen |-> prev.seen \cup {piece}]
                ELSE prev
  IN F[Len(pcs)].indices

(***************************************************************************)
(* ImagePuzzle (imagePuzzle.js): 2 rows x 4 columns of jigsaw pieces.      *)
(* collectedPieces is a JavaScript array, which an assignment beyond its   *)
(* end lengthens (the skipped elements are holes) and an assignment at a   *)
(* negative index gives a property without changing its length: `holes`   *)
(* is the set of indices that are holes (they read as undefined, FALSE in  *)
(* the sequence) and `props` the set of negative indices set to true.      *)
(***************************************************************************)
IMAGE_ROWS == 2
IMAGE_COLS == 4

\* new ImagePuzzle(sourceCanvas); a piece is known by its index.
NewImagePuzzle ==
  [pieces |-> [i \in 1..(IMAGE_ROWS * IMAGE_COLS) |-> i - 1],
   collectedPieces |-> [i \in 1..(IMAGE_ROWS * IMAGE_COLS) |-> FALSE],
   holes |-> {}, props |-> {}]
NoImagePuzzle == [pieces |-> <<>>, collectedPieces |-> <<>>, holes |-> {}, props |-> {}]

\* this.collectedPieces[index], as a condition
ImageCollectedAt(ip, index) ==
  IF index < 0 THEN index \in ip.props
  ELSE IF index < Len(ip.collectedPieces) THEN ip.collectedPieces[index + 1]
  ELSE FALSE

\* A plausible slip: collectPiece reports success even for a collected tile.
ImageCollectPieceAlwaysTrue(ip, index) ==
  LET n == Len(ip.collectedPieces)
      set == IF index < 0
             THEN [ip EXCEPT !.props = @ \cup {index}]
             ELSE IF index < n
             THEN [ip EXCEPT !.collectedPieces[index + 1] = TRUE,
                             !.holes = @ \ {index}]
             ELSE [ip EXCEPT
                     !.collectedPieces =
                        [i \in 1..(index + 1) |->
                           IF i <= n THEN ip.collectedPieces[i] ELSE i = index + 1],
                     !.holes = @ \cup (n..(index - 1))]
  IN [puzzle |-> set, ret |-> TRUE]

\* ImagePuzzle.collectPiece(index)
ImageCollectPiece(ip, index) ==
  IF ImageCollectedAt(ip, index) THEN [puzzle |-> ip, ret |-> FALSE]
  ELSE LET n == Len(ip.collectedPieces)
           set == IF index < 0
                  THEN [ip EXCEPT !.props = @ \cup {index}]
                  ELSE IF index < n
                  THEN [ip EXCEPT !.collectedPieces[index + 1] = TRUE,
                                  !.holes = @ \ {index}]
                  ELSE [ip EXCEPT
                          !.collectedPieces =
                             [i \in 1..(index + 1) |->
                                IF i <= n THEN ip.collectedPieces[i] ELSE i = index + 1],
                          !.holes = @ \cup (n..(index - 1))]
       IN [puzzle |-> set, ret |-> TRUE]

\* ImagePuzzle.isComplete(): every(c => c === true), which skips holes
ImageIsComplete(ip) ==
  \A i \in 1..Len(ip.collectedPieces) : (i - 1) \in ip.holes \/ ip.collectedPieces[i]

\* ImagePuzzle.getAllIndices()
ImageGetAllIndices(ip) == [i \in 1..Len(ip.pieces) |-> i - 1]

\* ImagePuzzle.resetCollected(): fill(false) over the array's current length
ImageResetCollected(ip) ==
  [ip EXCEPT !.collectedPieces = [i \in 1..Len(@) |-> FALSE], !.holes = {}]

(***************************************************************************)
(* Configuration of the session.  The canvas is the browser window; the    *)
(* model uses a small one and, with it, a small integer instance of the    *)
(* physics and spawn configuration of world.js (the values there are in    *)
(* pixels and may be overridden per device; the algorithm does not depend  *)
(* on them).  One length unit of the model is one cell of that canvas.     *)
(***************************************************************************)
canvasWidth == 2
canvasHeight == 6
MaxFrames == 5       \* ticks per round
MaxFails == 2        \* deaths per session
MaxVictories == 2    \* victory displays scheduled per session

PLAYER_X == 1
PLAYER_SIZE == 1                 \* Player.width = Player.height
PLAYER_GRAVITY == 1
PLAYER_FLAP == -2
OBSTACLE_SPAWN_DISTANCE == 1
OBSTACLE_WIDTH == 1
OBSTACLE_MARGIN == 1             \* obstacles spawn at canvasWidth + 50
GAP_SIZE == 2
MIN_GAP_Y == 2
GAP_MARGIN == 1                  \* maxGapY = canvasHeight - MIN_GAP_Y - 50
SCROLL_SPEED == 1
COLLECTIBLE_SIZE == 1            \* Collectible.width = Collectible.height
COLLECTIBLE_OFFSET == 1          \* spawnX = obstacle.x + obstacle.width + 30
COLLECTIBLE_PADDING == 0         \* padding inside the gap
COLLECTIBLE_MIN_Y == 0           \* spawnY = max(10, min(canvasHeight - 50, spawnY))
COLLECTIBLE_BOTTOM_MARGIN == 1

Max(a, b) == IF a > b THEN a ELSE b
Min(a, b) == IF a < b THEN a ELSE b

\* The payloads of the session: phrases the sender page produces (trimmed,
\* at least two characters, at least one letter).
GamePhrases == {<<"A", "b", SPACE, "A">>}

(***************************************************************************)
(* Strings: String.prototype.trim and toLowerCase on the model's alphabet. *)
(***************************************************************************)
IsWhitespace(c) == c \in {SPACE, TAB}

RECURSIVE TrimStart(_)
TrimStart(str) ==
  IF str # <<>> /\ IsWhitespace(Head(str)) THEN TrimStart(Tail(str)) ELSE str

RECURSIVE TrimEnd(_)
TrimEnd(str) ==
  IF str # <<>> /\ IsWhitespace(str[Len(str)])
  THEN TrimEnd(SubSeq(str, 1, Len(str) - 1)) ELSE str

Trim(str) == TrimEnd(TrimStart(str))

LowerChar(c) == IF c = "A" THEN "a" ELSE IF c = "B" THEN "b" ELSE c
ToLowerCase(str) == [i \in 1..Len(str) |-> LowerChar(str[i])]

(***************************************************************************)
(* Player (src/src/player.js)                                              *)
(***************************************************************************)
\* new Player(x, y, {gravity, flapStrength}): the fields the physics uses.
Player(x, y, size, gravity, flapStrength) ==
  [x |-> x, y |-> y, width |-> size, height |-> size, velocityY |-> 0,
   gravity |-> gravity, flapStrength |-> flapStrength]

\* new Player(PLAYER_X, canvasHeight / 2, ...)
NewPlayer == Player(PLAYER_X, canvasHeight \div 2, PLAYER_SIZE, PLAYER_GRAVITY, PLAYER_FLAP)
NoPlayer == Player(PLAYER_X, -1, PLAYER_SIZE, PLAYER_GRAVITY, PLAYER_FLAP)  \* player = null

\* A plausible slip: gravity is not added to the velocity.
PlayerUpdateNoGravity(p, height) ==
  LET v1 == p.velocityY
      y1 == p.y + v1
      top == IF y1 < 0 THEN [p EXCEPT !.y = 0, !.velocityY = 0]
                       ELSE [p EXCEPT !.y = y1, !.velocityY = v1]
  IN IF top.y + p.height > height
     THEN [top EXCEPT !.y = height - p.height, !.velocityY = 0]
     ELSE top

\* A plausible slip: the clamps move the avatar and keep its velocity.
PlayerUpdateKeepsVelocity(p, height) ==
  LET v1 == p.velocityY + p.gravity
      y1 == p.y + v1
      top == IF y1 < 0 THEN [p EXCEPT !.y = 0, !.velocityY = v1]
                       ELSE [p EXCEPT !.y = y1, !.velocityY = v1]
  IN IF top.y + p.height > height
     THEN [top EXCEPT !.y = height - p.height]
     ELSE top

\* update(canvasHeight): gravity, velocity, then the two clamps.
PlayerUpdate(p, height) ==
  LET v1 == p.velocityY + p.gravity
      y1 == p.y + v1
      top == IF y1 < 0 THEN [p EXCEPT !.y = 0, !.velocityY = 0]
                       ELSE [p EXCEPT !.y = y1, !.velocityY = v1]
  IN IF top.y + p.height > height
     THEN [top EXCEPT !.y = height - p.height, !.velocityY = 0]
     ELSE top

\* A plausible slip: a flap adds its impulse to the current velocity.
PlayerFlapAdds(p) == [p EXCEPT !.velocityY = @ + p.flapStrength]

\* flap()
PlayerFlap(p) == [p EXCEPT !.velocityY = p.flapStrength]

\* getBounds()
PlayerBounds(p) == [x |-> p.x, y |-> p.y, width |-> p.width, height |-> p.height]

\* isOutOfBounds(canvasHeight)
IsOutOfBounds(p, height) == p.y < 0 \/ p.y + p.height > height

(***************************************************************************)
(* Obstacle (src/src/obstacle.js) and Collectible (collectible.js)         *)
(***************************************************************************)
\* theme.obstacles.type of the four themes; the session runs the default
\* theme ("classic"), whose obstacles are pipes.
ObstacleTypes == {"pipe", "spike", "coral", "asteroid"}
THEME_TYPE == "pipe"
ASTEROID_SIZE == 35              \* asteroidSize, in pixels
ASTEROID_OFFSET == 30            \* the rock sits 30 px beyond the gap's edge

\* new Obstacle(x, canvasHeight, gapY, gapSize, theme): the fields collision
\* and scrolling use (gap sizes are even, so gapSize / 2 is an integer).
Obstacle(x, gapY, gapSize, width, type) ==
  [x |-> x, gapY |-> gapY, gapSize |-> gapSize, width |-> width,
   passed |-> FALSE, type |-> type]

\* new Obstacle(canvasWidth + 50, canvasHeight, gapY, GAP_SIZE, theme)
NewObstacle(x, gapY) == Obstacle(x, gapY, GAP_SIZE, OBSTACLE_WIDTH, THEME_TYPE)
TopHeight(o) == o.gapY - o.gapSize \div 2
BottomY(o) == o.gapY + o.gapSize \div 2

\* A plausible slip: the horizontal test is left out.
CollidesWithAnywhere(o, bounds) ==
  IF o.type = "asteroid"
  THEN \/ bounds.y < TopHeight(o) - ASTEROID_OFFSET - ASTEROID_SIZE
       \/ bounds.y + bounds.height > BottomY(o) + ASTEROID_OFFSET + ASTEROID_SIZE
  ELSE \/ bounds.y < TopHeight(o)
       \/ bounds.y + bounds.height > BottomY(o)

\* Obstacle.collidesWith(bounds): the asteroid columns end asteroidSize + 30
\* short of the gap; pipes, spikes and coral reach the gap's edges.
CollidesWith(o, bounds) ==
  /\ bounds.x + bounds.width > o.x
  /\ bounds.x < o.x + o.width
  /\ IF o.type = "asteroid"
     THEN \/ bounds.y < TopHeight(o) - ASTEROID_OFFSET - ASTEROID_SIZE
          \/ bounds.y + bounds.height > BottomY(o) + ASTEROID_OFFSET + ASTEROID_SIZE
     ELSE \/ bounds.y < TopHeight(o)
          \/ bounds.y + bounds.height > BottomY(o)

\* Obstacle.getGapBounds()
GapBounds(o) == [x |-> o.x, y |-> o.gapY - o.gapSize \div 2,
                 width |-> o.width, height |-> o.gapSize]

NewCollectible(x, y, pieceIndex, pieceText) ==
  [x |-> x, y |-> y, pieceIndex |-> pieceIndex, pieceText |-> pieceText,
   collected |-> FALSE]

\* Collectible.intersects(bounds); the bobbing offset of getBounds (at most
\* 5 px) is below the model's length unit.
Intersects(c, bounds) ==
  /\ c.x < bounds.x + bounds.width
  /\ c.x + COLLECTIBLE_SIZE > bounds.x
  /\ c.y < bounds.y + bounds.height
  /\ c.y + COLLECTIBLE_SIZE > bounds.y

\* A plausible slip: the off-screen test ignores the width.
IsOffScreenAtLeftEdge(x, width) == x < 0

\* update() of both: move left, then the off-screen test.
IsOffScreen(x, width) == x + width < 0

(***************************************************************************)
(* Session (src/src/world.js).  The handlers call each other and run to    *)
(* completion, so each is a function from the session state `s` (a record *)
(* of the module-level variables of world.js) to the session states it can *)
(* leave: a set, one member per outcome of the handler's Math.random()     *)
(* draws.  Handlers that draw nothing return the one state.                *)
(*                                                                         *)
(* requestAnimationFrame: pendingLoops is the number of gameLoop callbacks *)
(* requested and neither run nor cancelled; animationId is "null", "live"  *)
(* (the latest request, still pending) or "stale" (the latest request has  *)
(* run or was cancelled).  Callbacks run oldest first, so the one that     *)
(* runs is the one animationId names only when it is the only one pending. *)
(***************************************************************************)
\* The HUD as the page's markup has it before init() runs.
NoHud == [piecesDisplay |-> <<>>, collected |-> 0, total |-> 0]

\* A plausible slip: updateHUD leaves the HUD as it is.
UpdateHUDShowsNothing(s, pcs) == s

\* updateHUD(), text mode: the phrase display (emptied once the puzzle is
\* complete) and the "collected / total letters" counts.
UpdateHUD(s, pcs) ==
  [s EXCEPT !.hud =
     [piecesDisplay |-> IF IsComplete(s.collectedPieces) THEN <<>>
                        ELSE GetReconstructedPhrase(pcs, s.collectedPieces),
      collected |-> GetCollectedNonSpaceCount(pcs, s.collectedPieces),
      total |-> GetNonSpaceCount(pcs)]]

\* cancelAnimationFrame(animationId)
CancelAnimationFrame(s) ==
  IF s.animationId = "live"
  THEN [s EXCEPT !.animationId = "stale", !.pendingLoops = @ - 1]
  ELSE s

\* animationId = requestAnimationFrame(gameLoop)
RequestAnimationFrame(s) ==
  [s EXCEPT !.animationId = "live", !.pendingLoops = @ + 1]

Range(s) == {s[i] : i \in 1..Len(s)}

\* shuffleArray(array): Fisher-Yates can produce every permutation.
ShuffleOrders(seq) ==
  {p \in [1..Len(seq) -> Range(seq)] :
     \A i, j \in 1..Len(seq) : i # j => p[i] # p[j]}

\* The values Math.random() * availableHeight takes in spawnCollectibleInGap.
SpawnOffsets == 0..Max(0, GAP_SIZE - 2 * COLLECTIBLE_PADDING - 1)
\* The values of gapY in spawnSingleObstacle.
GapCenters == MIN_GAP_Y..Max(MIN_GAP_Y, canvasHeight - MIN_GAP_Y - GAP_MARGIN)

\* Puzzle.getPiece(index): pieces[index] || null ("" stands for null).
GetPiece(pcs, index) == IF index >= 0 /\ index < Len(pcs) THEN pcs[index + 1] ELSE ""

RECURSIVE SkipCollected(_, _)
\* while (piecesToSpawn.length > 0 && collectedArr[piecesToSpawn[0]]) shift()
SkipCollected(queue, coll) ==
  IF queue # <<>> /\ coll[Head(queue) + 1] THEN SkipCollected(Tail(queue), coll) ELSE queue

\* A plausible slip: the head of the queue is taken without skipping the
\* collected entries.
SpawnCollectibleInGapNoSkip(s, pcs, obstacle) ==
  IF s.piecesToSpawn = <<>> THEN {s}
  ELSE LET queue == s.piecesToSpawn
           nextIndex == Head(queue)
           gap == GapBounds(obstacle)
           spawnX == obstacle.x + OBSTACLE_WIDTH + COLLECTIBLE_OFFSET
           piece == GetPiece(pcs, nextIndex)
           SpawnY(offset) ==
             Max(COLLECTIBLE_MIN_Y,
                 Min(canvasHeight - COLLECTIBLE_BOTTOM_MARGIN,
                     gap.y + COLLECTIBLE_PADDING + offset))
       IN IF piece = ""
          THEN {[s EXCEPT !.piecesToSpawn = Tail(queue)]}
          ELSE {[s EXCEPT !.piecesToSpawn = Tail(queue),
                          !.collectibles =
                            Append(@, NewCollectible(spawnX, SpawnY(offset),
                                                     nextIndex, piece))]
                  : offset \in SpawnOffsets}

\* A plausible slip: the index taken for the new pickup stays in the queue.
SpawnCollectibleInGapKeepsHead(s, pcs, obstacle) ==
  IF s.piecesToSpawn = <<>> THEN {s}
  ELSE LET queue == SkipCollected(s.piecesToSpawn, s.collectedPieces)
       IN IF queue = <<>> THEN {[s EXCEPT !.piecesToSpawn = <<>>]}
          ELSE LET nextIndex == Head(queue)
                   gap == GapBounds(obstacle)
                   spawnX == obstacle.x + OBSTACLE_WIDTH + COLLECTIBLE_OFFSET
                   piece == GetPiece(pcs, nextIndex)
                   SpawnY(offset) ==
                     Max(COLLECTIBLE_MIN_Y,
                         Min(canvasHeight - COLLECTIBLE_BOTTOM_MARGIN,
                             gap.y + COLLECTIBLE_PADDING + offset))
               IN IF piece = ""
                  THEN {[s EXCEPT !.piecesToSpawn = Tail(queue)]}
                  ELSE {[s EXCEPT !.piecesToSpawn = queue,
                                  !.collectibles =
                                    Append(@, NewCollectible(spawnX, SpawnY(offset),
                                                             nextIndex, piece))]
                          : offset \in SpawnOffsets}

\* spawnCollectibleInGap(obstacle)
SpawnCollectibleInGap(s, pcs, obstacle) ==
  IF s.piecesToSpawn = <<>> THEN {s}
  ELSE LET queue == SkipCollected(s.piecesToSpawn, s.collectedPieces)
       IN IF queue = <<>> THEN {[s EXCEPT !.piecesToSpawn = <<>>]}
          ELSE LET nextIndex == Head(queue)
                   gap == GapBounds(obstacle)
                   spawnX == obstacle.x + OBSTACLE_WIDTH + COLLECTIBLE_OFFSET
                   piece == GetPiece(pcs, nextIndex)
                   SpawnY(offset) ==
                     Max(COLLECTIBLE_MIN_Y,
                         Min(canvasHeight - COLLECTIBLE_BOTTOM_MARGIN,
                             gap.y + COLLECTIBLE_PADDING + offset))
               IN IF piece = ""
                  THEN {[s EXCEPT !.piecesToSpawn = Tail(queue)]}
                  ELSE {[s EXCEPT !.piecesToSpawn = Tail(queue),
                                  !.collectibles =
                                    Append(@, NewCollectible(spawnX, SpawnY(offset),
                                                             nextIndex, piece))]
                          : offset \in SpawnOffsets}

\* spawnSingleObstacle()
SpawnSingleObstacle(s, pcs) ==
  UNION {LET obstacle == NewObstacle(canvasWidth + OBSTACLE_MARGIN, gapY)
             s1 == [s EXCEPT !.obstacles = Append(@, obstacle)]
         IN IF s1.piecesToSpawn # <<>>
            THEN SpawnCollectibleInGap(s1, pcs, obstacle)
            ELSE {s1}
           : gapY \in GapCenters}

\* A plausible slip: an obstacle is spawned in every tick.
SpawnObstaclesEveryTick(s, pcs) == SpawnSingleObstacle(s, pcs)

\* spawnObstacles()
SpawnObstacles(s, pcs) ==
  IF s.obstacles = <<>>
  THEN SpawnSingleObstacle(s, pcs)
  ELSE IF s.obstacles[Len(s.obstacles)].x < canvasWidth - OBSTACLE_SPAWN_DISTANCE
       THEN SpawnSingleObstacle(s, pcs)
       ELSE {s}

\* A plausible slip: hasPassed compares with the obstacle's left edge.
ObstacleStepLeftEdge(o) ==
  LET x1 == o.x - SCROLL_SPEED
      passes == ~o.passed /\ PLAYER_X > x1
  IN [o EXCEPT !.x = x1, !.passed = o.passed \/ passes]

\* Obstacle.update() followed by Obstacle.hasPassed(player.x), per obstacle.
ObstacleStep(o) ==
  LET x1 == o.x - SCROLL_SPEED
      passes == ~o.passed /\ PLAYER_X > x1 + o.width
  IN [o EXCEPT !.x = x1, !.passed = o.passed \/ passes]

\* updateObstacles(): move, score the newly passed, drop the off-screen.
UpdateObstacles(s) ==
  LET moved == [i \in 1..Len(s.obstacles) |-> ObstacleStep(s.obstacles[i])]
      newlyPassed == {i \in 1..Len(moved) : moved[i].passed /\ ~s.obstacles[i].passed}
      OnScreen(o) == ~IsOffScreen(o.x, OBSTACLE_WIDTH)
  IN [s EXCEPT !.obstacles = SelectSeq(moved, OnScreen),
               !.score = @ + Cardinality(newlyPassed)]

RECURSIVE RequeueMissed(_, _, _)
\* The filter of updateCollectibles, in list order: the indices pushed back.
RequeueMissed(cs, coll, queue) ==
  IF cs = <<>> THEN queue
  ELSE LET c == Head(cs)
       IN IF ~c.collected /\ IsOffScreen(c.x, COLLECTIBLE_SIZE) /\ ~coll[c.pieceIndex + 1]
          THEN RequeueMissed(Tail(cs), coll, Append(queue, c.pieceIndex))
          ELSE RequeueMissed(Tail(cs), coll, queue)

\* A plausible slip: every pickup that is removed is queued again, collected
\* or not.
UpdateCollectiblesRequeuesAll(s) ==
  LET moved == [i \in 1..Len(s.collectibles) |->
                  [s.collectibles[i] EXCEPT !.x = @ - SCROLL_SPEED]]
      Keep(c) == ~c.collected /\ ~IsOffScreen(c.x, COLLECTIBLE_SIZE)
      Gone(c) == ~Keep(c)
      removed == SelectSeq(moved, Gone)
  IN [s EXCEPT !.collectibles = SelectSeq(moved, Keep),
               !.piecesToSpawn = @ \o [k \in 1..Len(removed) |-> removed[k].pieceIndex]]

\* A plausible slip: off-screen pickups are dropped and never queued again.
UpdateCollectiblesDropsMissed(s) ==
  LET moved == [i \in 1..Len(s.collectibles) |->
                  [s.collectibles[i] EXCEPT !.x = @ - SCROLL_SPEED]]
      Keep(c) == ~c.collected /\ ~IsOffScreen(c.x, COLLECTIBLE_SIZE)
  IN [s EXCEPT !.collectibles = SelectSeq(moved, Keep)]

\* updateCollectibles()
UpdateCollectibles(s) ==
  LET moved == [i \in 1..Len(s.collectibles) |->
                  [s.collectibles[i] EXCEPT !.x = @ - SCROLL_SPEED]]
      Keep(c) == ~c.collected /\ ~IsOffScreen(c.x, COLLECTIBLE_SIZE)
  IN [s EXCEPT !.collectibles = SelectSeq(moved, Keep),
               !.piecesToSpawn = RequeueMissed(moved, s.collectedPieces, @)]

\* triggerGameOver(), with the first, synchronous run of deathAnimationLoop
\* (elapsed = 0, so it requests its next frame).
TriggerGameOver(s) ==
  [s EXCEPT !.failCount = @ + 1,
            !.gameOver = TRUE,
            !.gameStarted = FALSE,
            !.deathAnimationId = "live"]

RECURSIVE CollectFrom(_, _, _, _)
\* The collectibles.forEach of checkCollisions from position k on.
CollectFrom(s, pcs, bounds, k) ==
  IF k > Len(s.collectibles) THEN s
  ELSE LET c == s.collectibles[k]
       IN IF ~c.collected /\ Intersects(c, bounds)
          THEN LET r == CollectPiece(pcs, s.collectedPieces, c.pieceIndex)
                   marked == [i \in 1..Len(s.collectibles) |->
                                IF i = k \/ s.collectibles[i].pieceText = c.pieceText
                                THEN [s.collectibles[i] EXCEPT !.collected = TRUE]
                                ELSE s.collectibles[i]]
               IN CollectFrom(UpdateHUD([s EXCEPT !.collectedPieces = r.collected,
                                                  !.collectibles = marked],
                                        pcs),
                              pcs, bounds, k + 1)
          ELSE CollectFrom(s, pcs, bounds, k + 1)

\* A plausible slip: the pickups are collected before the obstacles are tested.
CheckCollisionsPickupsFirst(s, pcs) ==
  LET bounds == PlayerBounds(s.player)
      c == CollectFrom(s, pcs, bounds, 1)
  IN IF \E i \in 1..Len(s.obstacles) : CollidesWith(s.obstacles[i], bounds)
     THEN TriggerGameOver(c)
     ELSE IF IsOutOfBounds(s.player, canvasHeight)
          THEN TriggerGameOver(c)
          ELSE c

\* checkCollisions()
CheckCollisions(s, pcs) ==
  LET bounds == PlayerBounds(s.player)
  IN IF \E i \in 1..Len(s.obstacles) : CollidesWith(s.obstacles[i], bounds)
     THEN TriggerGameOver(s)
     ELSE IF IsOutOfBounds(s.player, canvasHeight)
          THEN TriggerGameOver(s)
          ELSE CollectFrom(s, pcs, bounds, 1)

\* The victory check that ends update().
CheckVictory(s) ==
  IF IsComplete(s.collectedPieces) /\ s.gameStarted /\ ~s.gameOver
  THEN [CancelAnimationFrame([s EXCEPT !.gameStarted = FALSE])
          EXCEPT !.victoryTimers = @ + 1]
  ELSE s

\* update()
Update(s, pcs) ==
  LET s1 == [s EXCEPT !.frameCount = @ + 1, !.player = PlayerUpdate(@, canvasHeight)]
  IN {CheckVictory(CheckCollisions(UpdateCollectibles(UpdateObstacles(s2)), pcs))
        : s2 \in SpawnObstacles(s1, pcs)}

\* Whether a call of gameLoop() gets past its first line.
LoopRuns(s) == s.gameStarted /\ ~s.gameOver /\ ~s.gamePaused

\* gameLoop()
GameLoop(s, pcs) ==
  IF ~LoopRuns(s) THEN {s}
  ELSE {RequestAnimationFrame(u) : u \in Update(s, pcs)}

\* A plausible slip: beginGame resets the fail counter along with the score.
BeginGameResetsFails(s, pcs) ==
  UNION {GameLoop([s EXCEPT !.gameStarted = TRUE,
                            !.gameOver = FALSE,
                            !.piecesToSpawn = order,
                            !.collectibles = <<>>,
                            !.obstacles = <<>>,
                            !.score = 0,
                            !.failCount = 0,
                            !.frameCount = 0],
                  pcs)
           : order \in ShuffleOrders(GetUniqueNonSpaceIndices(pcs))}

\* A plausible slip: beginGame sets gameStarted and leaves gameOver as it is.
BeginGameKeepsGameOver(s, pcs) ==
  UNION {GameLoop([s EXCEPT !.gameStarted = TRUE,
                            !.piecesToSpawn = order,
                            !.collectibles = <<>>,
                            !.obstacles = <<>>,
                            !.score = 0,
                            !.frameCount = 0],
                  pcs)
           : order \in ShuffleOrders(GetUniqueNonSpaceIndices(pcs))}

\* A plausible slip: beginGame refills the queue and keeps the pickup list.
BeginGameKeepsPickups(s, pcs) ==
  UNION {GameLoop([s EXCEPT !.gameStarted = TRUE,
                            !.gameOver = FALSE,
                            !.piecesToSpawn = order,
                            !.obstacles = <<>>,
                            !.score = 0,
                            !.frameCount = 0],
                  pcs)
           : order \in ShuffleOrders(GetUniqueNonSpaceIndices(pcs))}

\* beginGame()
BeginGame(s, pcs) ==
  UNION {GameLoop([s EXCEPT !.gameStarted = TRUE,
                            !.gameOver = FALSE,
                            !.piecesToSpawn = order,
                            !.collectibles = <<>>,
                            !.obstacles = <<>>,
                            !.score = 0,
                            !.frameCount = 0],
                  pcs)
           : order \in ShuffleOrders(GetUniqueNonSpaceIndices(pcs))}

\* startGame(): the countdown on the first start, beginGame at once later.
StartGame(s, pcs) ==
  LET s1 == [CancelAnimationFrame(s) EXCEPT !.animationId = "null"]
      s2 == [s1 EXCEPT !.deathAnimationId = "null", !.gameOverShown = FALSE]
  IN IF s2.isFirstStart
     THEN {[s2 EXCEPT !.isFirstStart = FALSE,
                      !.player = NewPlayer,
                      !.countdownPending = TRUE]}
     ELSE BeginGame([s2 EXCEPT !.player = NewPlayer], pcs)

\* resetGame()
ResetGame(s, pcs) ==
  {UpdateHUD(u, pcs) :
     u \in StartGame([s EXCEPT !.deathAnimationId = "null",
                               !.collectedPieces = ResetCollected(pcs, @)],
                     pcs)}

\* The Space branch of the keydown handler, and handleTap.
StartRetryOrFlap(s, pcs) ==
  IF ~s.gameStarted THEN StartGame(s, pcs)
  ELSE IF s.gameOver THEN ResetGame(s, pcs)
  ELSE IF s.player # NoPlayer THEN {[s EXCEPT !.player = PlayerFlap(@)]}
  ELSE {s}

\* showGuessModal()
ShowGuessModal(s) == CancelAnimationFrame([s EXCEPT !.gamePaused = TRUE])

\* hideGuessModal()
HideGuessModal(s, pcs) ==
  LET s1 == [s EXCEPT !.gamePaused = FALSE]
  IN IF s1.gameStarted /\ ~s1.gameOver THEN GameLoop(s1, pcs) ELSE {s1}

\* A plausible slip: the guess is compared with the phrase case-sensitively.
GuessMatchesExactly(guess, phrase) == Trim(guess) = phrase

\* The comparison of submitGuess, on the trimmed guess.
GuessMatches(guess, phrase) == ToLowerCase(Trim(guess)) = ToLowerCase(phrase)

\* A plausible slip: a wrong guess closes the modal as a correct one does.
SubmitGuessClosesModal(s, phrase, guess) ==
  IF Trim(guess) = <<>> THEN s
  ELSE IF GuessMatches(guess, phrase)
       THEN [UpdateHUD([s EXCEPT !.collectedPieces = [i \in 1..Len(@) |-> TRUE]],
                       splitPhrase(phrase))
               EXCEPT !.gamePaused = FALSE,
                      !.gameStarted = FALSE,
                      !.victoryTimers = @ + 1]
       ELSE [s EXCEPT !.gamePaused = FALSE]

\* submitGuess(), guess = guessInput.value
SubmitGuess(s, phrase, guess) ==
  IF Trim(guess) = <<>> THEN s
  ELSE IF GuessMatches(guess, phrase)
       THEN [UpdateHUD([s EXCEPT !.collectedPieces = [i \in 1..Len(@) |-> TRUE]],
                       splitPhrase(phrase))
               EXCEPT !.gamePaused = FALSE,
                      !.gameStarted = FALSE,
                      !.victoryTimers = @ + 1]
       ELSE s

(***************************************************************************)
(* State                                                                   *)
(***************************************************************************)
VARIABLES
  originalPhrase,   \* Puzzle.originalPhrase
  pieces,           \* Puzzle.pieces
  collectedPieces,  \* Puzzle.collectedPieces
  gameStarted, gameOver, gamePaused, isFirstStart,
  player,           \* a Player record, or NoPlayer before the first start
  obstacles,        \* sequence of Obstacle records
  collectibles,     \* sequence of [x, y, pieceIndex, pieceText, collected]
  piecesToSpawn,    \* the pending queue of piece indices
  score, frameCount, failCount,
  animationId,      \* "null", "live" or "stale"
  pendingLoops,     \* gameLoop callbacks requested and still pending
  countdownPending, \* the 1500 ms timer of showCountdown is pending
  victoryTimers,    \* pending setTimeout(showVictory, ...) timers
  victoryShown,     \* calls of showVictory so far
  deathAnimationId, \* "null", "live" or "stale"
  gameOverShown,    \* the game-over screen is what the canvas shows
  imagePuzzle,      \* the ImagePuzzle of image mode; NoImagePuzzle in text mode
  hud,              \* piecesDisplay.textContent and the numbers in progressText
  deathAnimation,   \* deathAnimationStart, the particle system and the pending
                    \* deathAnimationLoop callbacks, as DeathSpec follows them
  last              \* the operation that produced this state

puzzleVars == <<originalPhrase, pieces, collectedPieces>>
sessionVars == <<gameStarted, gameOver, gamePaused, isFirstStart, player, obstacles,
                 collectibles, piecesToSpawn, score, frameCount, failCount,
                 animationId, pendingLoops, countdownPending, victoryTimers,
                 victoryShown, deathAnimationId, gameOverShown, imagePuzzle, hud,
                 deathAnimation>>
vars == <<originalPhrase, pieces, collectedPieces, gameStarted, gameOver, gamePaused,
          isFirstStart, player, obstacles, collectibles, piecesToSpawn, score,
          frameCount, failCount, animationId, pendingLoops, countdownPending,
          victoryTimers, victoryShown, deathAnimationId, gameOverShown,
          imagePuzzle, hud, deathAnimation, last>>

\* `last` records the operation that produced the state: its name, the name
\* of the operation before it, its index argument, its boolean result, its
\* sequence result or argument, and collectedPieces as the latest mutating
\* operation found it.
NoOp == [op |-> "init", prevOp |-> "none", index |-> 0, ret |-> FALSE,
         val |-> <<>>, before |-> <<>>]
Event(name) == [NoOp EXCEPT !.op = name]

\* new Puzzle(phrase)
PuzzleConstructed(phrase) ==
  /\ originalPhrase = phrase
  /\ pieces = splitPhrase(phrase)
  /\ collectedPieces = NewCollected(splitPhrase(phrase))

\* deathAnimationStart = 0, an empty ParticleSystem, no callback pending.
\* started: deathAnimationStart is not 0; elapsed: the time since
\* deathAnimationStart; effects: the calls of drawDeathFrame after which
\* particleSystem.isActive() answers false; loops: the deathAnimationLoop
\* callbacks pending.  Three fields keep the history the claims speak of:
\* sinceDeath, the time since the latest death; shown, the calls of
\* showGameOverScreen since then; overlapped, whether that death came while
\* a callback of an earlier death was pending.
NoDeathAnimation ==
  [started |-> FALSE, elapsed |-> 0, effects |-> 0, loops |-> 0,
   sinceDeath |-> 0, shown |-> 0, overlapped |-> FALSE]

\* The module-level initialisers of world.js, the avatar and the obstacle
\* list apart.
IdleInit ==
  /\ gameStarted = FALSE /\ gameOver = FALSE /\ gamePaused = FALSE
  /\ isFirstStart = TRUE
  /\ collectibles = <<>> /\ piecesToSpawn = <<>>
  /\ score = 0 /\ frameCount = 0 /\ failCount = 0
  /\ animationId = "null" /\ pendingLoops = 0
  /\ countdownPending = FALSE
  /\ victoryTimers = 0 /\ victoryShown = 0
  /\ deathAnimationId = "null" /\ gameOverShown = FALSE
  /\ deathAnimation = NoDeathAnimation
  /\ imagePuzzle = NoImagePuzzle

\* The module-level initialisers of world.js.
SessionInit == IdleInit /\ player = NoPlayer /\ obstacles = <<>>

(***************************************************************************)
(* The fragment model on its own: any payload, any sequence of             *)
(* collectPiece(index) and resetCollected() calls, interleaved with the    *)
(* queries getReconstructedPhrase() and getUniqueNonSpaceIndices().        *)
(***************************************************************************)
PuzzleInit ==
  /\ \E phrase \in Payloads : PuzzleConstructed(phrase)
  /\ SessionInit
  /\ hud = NoHud
  /\ last = NoOp

PuzzleCollect ==
  \E index \in -1..(MaxLen + 2) :
    LET r == CollectPiece(pieces, collectedPieces, index)
    IN /\ collectedPieces' = r.collected
       /\ last' = [op |-> "collectPiece", prevOp |-> last.op, index |-> index,
                   ret |-> r.ret, val |-> <<>>, before |-> collectedPieces]
       /\ UNCHANGED <<originalPhrase, pieces, sessionVars>>

PuzzleReset ==
  /\ collectedPieces' = ResetCollected(pieces, collectedPieces)
  /\ last' = [op |-> "resetCollected", prevOp |-> last.op, index |-> 0,
              ret |-> FALSE, val |-> <<>>, before |-> collectedPieces]
  /\ UNCHANGED <<originalPhrase, pieces, sessionVars>>

PuzzleReconstruct ==
  /\ last.op # "getReconstructedPhrase"
  /\ last' = [op |-> "getReconstructedPhrase", prevOp |-> last.op, index |-> 0,
              ret |-> IsComplete(collectedPieces),
              val |-> GetReconstructedPhrase(pieces, collectedPieces),
              before |-> last.before]
  /\ UNCHANGED <<puzzleVars, sessionVars>>

PuzzleGetUnique ==
  /\ last.op # "getUniqueNonSpaceIndices"
  /\ last' = [op |-> "getUniqueNonSpaceIndices", prevOp |-> last.op, index |-> 0,
              ret |-> FALSE, val |-> GetUniqueNonSpaceIndices(pieces),
              before |-> last.before]
  /\ UNCHANGED <<puzzleVars, sessionVars>>

PuzzleNext == PuzzleCollect \/ PuzzleReset \/ PuzzleReconstruct \/ PuzzleGetUnique

PuzzleSpec == PuzzleInit /\ [][PuzzleNext]_vars

(***************************************************************************)
(* One obstacle and one box on their own, in pixels: any theme, any box,   *)
(* and the calls collidesWith(box) and getGapBounds().  The box is the     *)
(* bounding box of a Player record.                                        *)
(***************************************************************************)
OBSTACLE_PIXEL_WIDTH == 60       \* Obstacle.width
ObstacleXs == {100}
GapYs == {200, 300}
GapSizes == {150, 200}
BoxXs == {20, 70, 120, 170}
BoxYs == {0, 40, 60, 100, 125, 150, 255, 275, 300, 340, 345, 400}
BoxSizes == {20, 40}

ObstacleInit ==
  /\ PuzzleConstructed(ScenarioPhrase)
  /\ IdleInit
  /\ hud = NoHud
  /\ \E x \in ObstacleXs, gapY \in GapYs, gapSize \in GapSizes, type \in ObstacleTypes :
       obstacles = <<Obstacle(x, gapY, gapSize, OBSTACLE_PIXEL_WIDTH, type)>>
  /\ \E x \in BoxXs, y \in BoxYs, size \in BoxSizes :
       player = Player(x, y, size, 0, 0)
  /\ last = NoOp

ObstacleCollidesWith ==
  /\ last' = [Event("collidesWith") EXCEPT
                !.ret = CollidesWith(obstacles[1], PlayerBounds(player))]
  /\ UNCHANGED <<puzzleVars, sessionVars>>

ObstacleGetGapBounds ==
  /\ last' = [Event("getGapBounds") EXCEPT !.val = GapBounds(obstacles[1])]
  /\ UNCHANGED <<puzzleVars, sessionVars>>

ObstacleNext == ObstacleCollidesWith \/ ObstacleGetGapBounds

ObstacleSpec == ObstacleInit /\ [][ObstacleNext]_vars

(***************************************************************************)
(* The avatar on its own: update(canvasHeight) and flap() in any order,    *)
(* from any position and velocity.  Two instances of the physics: the      *)
(* session's small one, and the defaults of player.js (gravity 0.6,        *)
(* flapStrength -10, height 40) on a 300 px canvas, in tenths of a pixel   *)
(* so that the arithmetic stays in the integers.  last.index holds the     *)
(* canvasHeight argument of the update calls.                              *)
(***************************************************************************)
DEFAULT_GRAVITY == 6             \* 0.6 px per frame
DEFAULT_FLAP == -100             \* -10 px per frame
DEFAULT_SIZE == 400              \* 40 px
DEFAULT_CANVAS == 3000           \* a canvas 300 px high

PlayerInstances ==
  {[size |-> PLAYER_SIZE, gravity |-> PLAYER_GRAVITY, flapStrength |-> PLAYER_FLAP,
    canvasHeight |-> canvasHeight,
    ys |-> (-2)..(canvasHeight + 1), vs |-> (-3)..3],
   [size |-> DEFAULT_SIZE, gravity |-> DEFAULT_GRAVITY, flapStrength |-> DEFAULT_FLAP,
    canvasHeight |-> DEFAULT_CANVAS,
    ys |-> {-50, 0, 300, 1500, 2600, 2650}, vs |-> {-100, 0, 50}]}

\* A Player somewhere on (or off) the canvas, moving at some velocity.
PlayerAt(inst, y, v) ==
  [Player(PLAYER_X, y, inst.size, inst.gravity, inst.flapStrength)
     EXCEPT !.velocityY = v]

worldVars == <<originalPhrase, pieces, collectedPieces, gameStarted, gameOver,
               gamePaused, isFirstStart, obstacles, collectibles, piecesToSpawn,
               score, frameCount, failCount, animationId, pendingLoops,
               countdownPending, victoryTimers, victoryShown, deathAnimationId,
               gameOverShown, imagePuzzle, hud, deathAnimation>>

PlayerInit ==
  /\ PuzzleConstructed(ScenarioPhrase)
  /\ IdleInit
  /\ hud = NoHud
  /\ obstacles = <<>>
  /\ \E inst \in PlayerInstances :
       /\ \E y \in inst.ys, v \in inst.vs : player = PlayerAt(inst, y, v)
       /\ last = [NoOp EXCEPT !.index = inst.canvasHeight]

\* player.update(canvasHeight)
PlayerUpdateStep ==
  /\ player' = PlayerUpdate(player, last.index)
  /\ last' = [op |-> "update", prevOp |-> last.op, index |-> last.index,
              ret |-> FALSE, val |-> <<>>, before |-> player]
  /\ UNCHANGED worldVars

\* player.flap()
PlayerFlapStep ==
  /\ player' = PlayerFlap(player)
  /\ last' = [op |-> "flap", prevOp |-> last.op, index |-> last.index,
              ret |-> FALSE, val |-> <<>>, before |-> player]
  /\ UNCHANGED worldVars

PlayerNext == PlayerUpdateStep \/ PlayerFlapStep

PlayerSpec == PlayerInit /\ [][PlayerNext]_vars

\* The avatar left alone: it starts in bounds and only update() is called,
\* once per frame for as long as the loop runs.
InBounds(p, height) == 0 <= p.y /\ p.y <= height - p.height

PlayerFallInit == PlayerInit /\ InBounds(player, last.index)

PlayerFallNext == PlayerUpdateStep

PlayerFallSpec ==
  PlayerFallInit /\ [][PlayerFallNext]_vars /\ WF_vars(PlayerUpdateStep)

(***************************************************************************)
(* The ImagePuzzle on its own: collectPiece(index) for indices inside and  *)
(* outside [0, 8), and resetCollected().                                   *)
(***************************************************************************)
ImageIndices == (-1)..(IMAGE_ROWS * IMAGE_COLS + 1)

playerAndWorld == <<originalPhrase, pieces, collectedPieces, gameStarted, gameOver,
                    gamePaused, isFirstStart, player, obstacles, collectibles,
                    piecesToSpawn, score, frameCount, failCount, animationId,
                    pendingLoops, countdownPending, victoryTimers, victoryShown,
                    deathAnimationId, gameOverShown, hud, deathAnimation>>

ImagePuzzleInit ==
  /\ PuzzleConstructed(ScenarioPhrase)
  /\ gameStarted = FALSE /\ gameOver = FALSE /\ gamePaused = FALSE
  /\ isFirstStart = TRUE
  /\ collectibles = <<>> /\ piecesToSpawn = <<>>
  /\ score = 0 /\ frameCount = 0 /\ failCount = 0
  /\ animationId = "null" /\ pendingLoops = 0
  /\ countdownPending = FALSE
  /\ victoryTimers = 0 /\ victoryShown = 0
  /\ deathAnimationId = "null" /\ gameOverShown = FALSE
  /\ deathAnimation = NoDeathAnimation
  /\ player = NoPlayer /\ obstacles = <<>>
  /\ imagePuzzle = NewImagePuzzle
  /\ hud = NoHud
  /\ last = NoOp

ImageCollect ==
  \E index \in ImageIndices :
    LET r == ImageCollectPiece(imagePuzzle, index)
    IN /\ imagePuzzle' = r.puzzle
       /\ last' = [op |-> "collectPiece", prevOp |-> "none", index |-> index,
                   ret |-> r.ret, val |-> <<>>, before |-> imagePuzzle]
       /\ UNCHANGED playerAndWorld

ImageReset ==
  /\ imagePuzzle' = ImageResetCollected(imagePuzzle)
  /\ last' = [op |-> "resetCollected", prevOp |-> "none", index |-> 0,
              ret |-> FALSE, val |-> <<>>, before |-> imagePuzzle]
  /\ UNCHANGED playerAndWorld

ImagePuzzleNext == ImageCollect \/ ImageReset

ImagePuzzleSpec == ImagePuzzleInit /\ [][ImagePuzzleNext]_vars

\* The ImagePuzzle as image mode uses it: checkCollisions passes the
\* pieceIndex of a pickup, and pickups are made from getAllIndices().
ImageCollectPickup ==
  \E index \in Range(ImageGetAllIndices(imagePuzzle)) :
    LET r == ImageCollectPiece(imagePuzzle, index)
    IN /\ imagePuzzle' = r.puzzle
       /\ last' = [op |-> "collectPiece", prevOp |-> "none", index |-> index,
                   ret |-> r.ret, val |-> <<>>, before |-> imagePuzzle]
       /\ UNCHANGED playerAndWorld

ImageModeNext == ImageCollectPickup \/ ImageReset

ImageModeSpec == ImagePuzzleInit /\ [][ImageModeNext]_vars

(***************************************************************************)
(* The session: the game page in text mode, from page load on.             *)
(***************************************************************************)
State ==
  [gameStarted |-> gameStarted, gameOver |-> gameOver, gamePaused |-> gamePaused,
   isFirstStart |-> isFirstStart, player |-> player, obstacles |-> obstacles,
   collectibles |-> collectibles, piecesToSpawn |-> piecesToSpawn, score |-> score,
   frameCount |-> frameCount, failCount |-> failCount,
   collectedPieces |-> collectedPieces, animationId |-> animationId,
   pendingLoops |-> pendingLoops, countdownPending |-> countdownPending,
   victoryTimers |-> victoryTimers, victoryShown |-> victoryShown,
   deathAnimationId |-> deathAnimationId, gameOverShown |-> gameOverShown,
   hud |-> hud]

\* The handler leaves the session in state s, a round being at most maxFrames
\* ticks long; the death animation is followed apart.
SessionBecomes(s, maxFrames) ==
  /\ s.frameCount <= maxFrames
  /\ gameStarted' = s.gameStarted /\ gameOver' = s.gameOver
  /\ gamePaused' = s.gamePaused /\ isFirstStart' = s.isFirstStart
  /\ player' = s.player /\ obstacles' = s.obstacles
  /\ collectibles' = s.collectibles /\ piecesToSpawn' = s.piecesToSpawn
  /\ score' = s.score /\ frameCount' = s.frameCount /\ failCount' = s.failCount
  /\ collectedPieces' = s.collectedPieces /\ animationId' = s.animationId
  /\ pendingLoops' = s.pendingLoops /\ countdownPending' = s.countdownPending
  /\ victoryTimers' = s.victoryTimers /\ victoryShown' = s.victoryShown
  /\ deathAnimationId' = s.deathAnimationId /\ gameOverShown' = s.gameOverShown
  /\ hud' = s.hud
  /\ UNCHANGED <<originalPhrase, pieces, imagePuzzle>>

\* The same, for the specifications that leave the death animation's timing
\* open (DeathAnimationFrame below shows the screen at any frame).
BecomesWithin(s, maxFrames) ==
  SessionBecomes(s, maxFrames) /\ UNCHANGED deathAnimation

\* The handler leaves the session in state s; the counters stay in bounds.
Becomes(s) == BecomesWithin(s, MaxFrames)

\* A new round is started only while the session's counters are in bounds.
MayStartRound == failCount < MaxFails /\ victoryTimers + victoryShown < MaxVictories

\* What the page types into guessInput.
Guesses ==
  {<<>>, <<"b">>, ToLowerCase(originalPhrase),
   <<SPACE>> \o originalPhrase \o <<TAB>>}

Init ==
  /\ \E phrase \in GamePhrases : PuzzleConstructed(phrase)
  /\ SessionInit
  /\ hud = UpdateHUD([hud |-> NoHud, collectedPieces |-> collectedPieces], pieces).hud
  /\ last = NoOp

\* The function the Space branch of keydown, and handleTap, call.
SpaceHandler ==
  IF ~gameStarted THEN "startGame" ELSE IF gameOver THEN "resetGame" ELSE "flap"

\* window keydown, Space: start, retry or flap (ignored while the modal is open).
KeySpace ==
  /\ ~gamePaused
  /\ gameStarted \/ MayStartRound
  /\ \E s \in StartRetryOrFlap(State, pieces) : Becomes(s)
  /\ last' = Event(SpaceHandler)

\* canvas touchstart / click
HandleTap ==
  /\ ~gamePaused
  /\ gameStarted \/ MayStartRound
  /\ \E s \in StartRetryOrFlap(State, pieces) : Becomes(s)
  /\ last' = Event(SpaceHandler)

\* startBtn click; the button is on the instructions panel, which startGame hides.
StartBtnClick ==
  /\ isFirstStart
  /\ \E s \in StartGame(State, pieces) : Becomes(s)
  /\ last' = Event("startGame")

\* A plausible slip: G opens the guess dialog whether or not a round is played.
KeyGInAnyState ==
  /\ ~gamePaused
  /\ Becomes(ShowGuessModal(State))
  /\ last' = Event("showGuessModal")

\* window keydown, G (not while the modal is open).
KeyG ==
  /\ ~gamePaused
  /\ gameStarted /\ ~gameOver
  /\ Becomes(ShowGuessModal(State))
  /\ last' = Event("showGuessModal")

\* guessBtn click
GuessBtnClick ==
  /\ gameStarted /\ ~gameOver /\ ~gamePaused
  /\ Becomes(ShowGuessModal(State))
  /\ last' = Event("showGuessModal")

\* window keydown, Enter, while the modal is open.
KeyEnter ==
  \E guess \in Guesses :
    /\ gamePaused
    /\ Becomes(SubmitGuess(State, originalPhrase, guess))
    /\ last' = [Event("submitGuess") EXCEPT !.val = guess]

\* submitGuessBtn click; the button is inside the guess modal.
SubmitGuessClick ==
  \E guess \in Guesses :
    /\ gamePaused
    /\ Becomes(SubmitGuess(State, originalPhrase, guess))
    /\ last' = [Event("submitGuess") EXCEPT !.val = guess]

\* window keydown, Escape, while the modal is open.
KeyEscape ==
  /\ gamePaused
  /\ \E s \in HideGuessModal(State, pieces) : Becomes(s)
  /\ last' = Event("hideGuessModal")

\* cancelGuessBtn click, or a click on the modal's backdrop.
CancelGuessClick ==
  /\ gamePaused
  /\ \E s \in HideGuessModal(State, pieces) : Becomes(s)
  /\ last' = Event("hideGuessModal")

\* The last timer of showCountdown: beginGame().
CountdownTimeout ==
  /\ countdownPending
  /\ \E s \in BeginGame([State EXCEPT !.countdownPending = FALSE], pieces) : Becomes(s)
  /\ last' = Event("beginGame")

\* The browser runs the oldest pending gameLoop callback (last.ret records
\* whether its tick completed the phrase).
AnimationFrameWithin(maxFrames) ==
  /\ pendingLoops > 0
  /\ LET fired == [State EXCEPT
                     !.pendingLoops = @ - 1,
                     !.animationId = IF @ = "live" /\ pendingLoops = 1 THEN "stale" ELSE @]
     IN \E s \in GameLoop(fired, pieces) : BecomesWithin(s, maxFrames)
  /\ last' = [Event("gameLoop") EXCEPT
               !.ret = ~IsComplete(collectedPieces) /\ IsComplete(collectedPieces')]

AnimationFrame == AnimationFrameWithin(MaxFrames)

\* The browser runs the pending deathAnimationLoop callback: it requests the
\* next frame, or (duration over, particles settled) shows the game-over screen.
DeathAnimationFrame ==
  /\ deathAnimationId = "live"
  /\ \/ Becomes(State)
     \/ Becomes([State EXCEPT !.deathAnimationId = "stale", !.gameOverShown = TRUE])
  /\ last' = Event("deathAnimationLoop")

\* A setTimeout(showVictory, ...) timer fires.
VictoryTimeout ==
  /\ victoryTimers > 0
  /\ Becomes([State EXCEPT !.victoryTimers = @ - 1, !.victoryShown = @ + 1])
  /\ last' = Event("showVictory")

Next ==
  \/ KeySpace
  \/ HandleTap
  \/ StartBtnClick
  \/ KeyG
  \/ GuessBtnClick
  \/ KeyEnter
  \/ SubmitGuessClick
  \/ KeyEscape
  \/ CancelGuessClick
  \/ CountdownTimeout
  \/ AnimationFrame
  \/ DeathAnimationFrame
  \/ VictoryTimeout

Spec == Init /\ [][Next]_vars

(***************************************************************************)
(* Whole rounds: the page from load on, played with Space alone (flap in   *)
(* a round, retry after a death), the guess dialog left closed, and rounds *)
(* long enough for a pickup to scroll off the screen and come back.        *)
(***************************************************************************)
MaxRoundFrames == 13

\* window keydown, Space, in a round (flap) or after a death (retry).
RoundSpace ==
  /\ ~gamePaused
  /\ \/ gameStarted
     \/ gameOver /\ MayStartRound
  /\ \E s \in StartRetryOrFlap(State, pieces) : BecomesWithin(s, MaxRoundFrames)
  /\ last' = Event(SpaceHandler)

\* The browser runs the pending gameLoop callback.
RoundTick == AnimationFrameWithin(MaxRoundFrames)

RoundNext ==
  \/ StartBtnClick
  \/ CountdownTimeout
  \/ RoundSpace
  \/ RoundTick

RoundSpec == Init /\ [][RoundNext]_vars

\* ENABLED <<RoundTick>>_vars: a frame callback is pending, and the tick it
\* would run is within the round's length.
TickEnabled == pendingLoops > 0 /\ (LoopRuns(State) => frameCount < MaxRoundFrames)

\* The browser calls every requested frame callback: weak fairness of
\* RoundTick, WF_vars(RoundTick), written out with TickEnabled for its ENABLED.
RoundLiveSpec == RoundSpec /\ ([]<>~TickEnabled \/ []<><<RoundTick>>_vars)

(***************************************************************************)
(* One stretch of play from any arrangement of the boxes: a round in       *)
(* progress with one obstacle and up to two pickups anywhere near the      *)
(* avatar, and the frames that follow.  In pixels a pickup trails its      *)
(* obstacle by 30 and the avatar is 40 wide, so the avatar can overlap     *)
(* both at once; on the grid that takes a pickup in an obstacle's column,  *)
(* so the boxes are placed independently here.                             *)
(***************************************************************************)
AvatarYs == 0..(canvasHeight - PLAYER_SIZE)
AvatarVelocities == {PLAYER_FLAP, 0, PLAYER_GRAVITY}
NearObstacleXs == PLAYER_X..(canvasWidth + OBSTACLE_MARGIN)
NearPickupXs == {PLAYER_X + SCROLL_SPEED, canvasWidth + OBSTACLE_MARGIN}
PickupYs == 0..(canvasHeight - COLLECTIBLE_BOTTOM_MARGIN)

\* The collected flags a round in progress can have: nothing, or one
\* character, picked up.
PartlyCollected(pcs) ==
  {c \in {NewCollected(pcs)} \cup
          {CollectPiece(pcs, NewCollected(pcs), i).collected
             : i \in Range(GetUniqueNonSpaceIndices(pcs))} :
     ~IsComplete(c)}

\* The pickups on screen: none, one, or two of different fragments in the
\* column next to the avatar.
PickupsNear(pcs, coll) ==
  LET open == {i \in Range(GetUniqueNonSpaceIndices(pcs)) : ~coll[i + 1]}
  IN {<<>>}
     \cup {<<NewCollectible(x, y, i, pcs[i + 1])>>
             : x \in NearPickupXs, y \in PickupYs, i \in open}
     \cup {<<NewCollectible(PLAYER_X + SCROLL_SPEED, y1, i, pcs[i + 1]),
             NewCollectible(PLAYER_X + SCROLL_SPEED, y2, j, pcs[j + 1])>>
             : <<y1, y2, i, j>> \in
                 {q \in PickupYs \X PickupYs \X open \X open : q[3] < q[4]}}

\* The fragments still to offer: the open ones that are not on screen.
QueueFor(pcs, coll, cs) ==
  SelectSeq(GetUniqueNonSpaceIndices(pcs),
            LAMBDA i : ~coll[i + 1] /\ \A k \in 1..Len(cs) : cs[k].pieceIndex # i)

CollisionInit ==
  /\ \E phrase \in GamePhrases :
       /\ originalPhrase = phrase
       /\ pieces = splitPhrase(phrase)
       /\ collectedPieces \in PartlyCollected(splitPhrase(phrase))
  /\ gameStarted = TRUE /\ gameOver = FALSE /\ gamePaused = FALSE
  /\ isFirstStart = FALSE
  /\ \E y \in AvatarYs, v \in AvatarVelocities :
       player = [NewPlayer EXCEPT !.y = y, !.velocityY = v]
  /\ \E x \in NearObstacleXs, gapY \in GapCenters :
       obstacles = <<NewObstacle(x, gapY)>>
  /\ collectibles \in PickupsNear(pieces, collectedPieces)
  /\ piecesToSpawn = QueueFor(pieces, collectedPieces, collectibles)
  /\ score = 0 /\ frameCount = 0 /\ failCount = 0
  /\ animationId = "live" /\ pendingLoops = 1
  /\ countdownPending = FALSE
  /\ victoryTimers = 0 /\ victoryShown = 0
  /\ deathAnimationId = "null" /\ gameOverShown = FALSE
  /\ deathAnimation = NoDeathAnimation
  /\ imagePuzzle = NoImagePuzzle
  /\ hud = UpdateHUD([hud |-> NoHud, collectedPieces |-> collectedPieces], pieces).hud
  /\ last = NoOp

CollisionNext == AnimationFrame

CollisionSpec == CollisionInit /\ [][CollisionNext]_vars

(***************************************************************************)
(* The death animation: the page from load on, played with Space, with the *)
(* clock, the particle system and the pending deathAnimationLoop callbacks *)
(* followed.  Time is counted in units of half the animation's duration;   *)
(* a call of deathAnimationLoop finds the clock where the call before it   *)
(* left it or one unit on.                                                 *)
(***************************************************************************)
DEATH_ANIMATION_DURATION == 2    \* 2000 ms
ClockSteps == {0, 1}
\* The calls of drawDeathFrame a death's particles and screen shake last
\* (each particle's decay is drawn at random).
EffectLifetimes == {2, 3}

\* One call of deathAnimationLoop(), dt after the call before it: the call
\* sets deathAnimationStart if it is 0, draws a frame (the particles age),
\* and requests the next frame or shows the game-over screen.
DeathAnimationLoop(d, dt) ==
  LET elapsed == IF d.started THEN Min(DEATH_ANIMATION_DURATION, d.elapsed + dt) ELSE 0
      effects == Max(0, d.effects - 1)
      timed == [d EXCEPT !.started = TRUE, !.elapsed = elapsed, !.effects = effects,
                         !.sinceDeath = Min(DEATH_ANIMATION_DURATION, @ + dt)]
  IN IF elapsed < DEATH_ANIMATION_DURATION \/ effects > 0
     THEN [timed EXCEPT !.loops = @ + 1]
     ELSE [timed EXCEPT !.started = FALSE, !.elapsed = 0,
                        !.shown = Min(2, @ + 1)]

\* What triggerGameOver does to the death animation: the explosion and the
\* screen shake, then the first call of deathAnimationLoop().
TriggerGameOverEffects(d) ==
  {[DeathAnimationLoop([d EXCEPT !.effects = life, !.shown = 0,
                                 !.overlapped = d.loops > 0],
                       dt)
      EXCEPT !.sinceDeath = 0]
     : life \in EffectLifetimes, dt \in ClockSteps}

\* What startGame does to it: cancelAnimationFrame(deathAnimationId), which
\* takes the latest request if that is still pending, deathAnimationStart = 0,
\* and particleSystem.clear().
StartGameEffects(d, id) ==
  [d EXCEPT !.loops = IF id = "live" THEN @ - 1 ELSE @,
            !.started = IF id # "null" THEN FALSE ELSE @,
            !.elapsed = IF id # "null" THEN 0 ELSE @,
            !.effects = 0]

\* The death animation after a step of the session: startGame, if the step
\* called it, then triggerGameOver, if the step's tick ended in a death.
DeathAnimationFollows ==
  LET d == IF last'.op \in {"startGame", "resetGame"}
           THEN StartGameEffects(deathAnimation, deathAnimationId)
           ELSE deathAnimation
  IN IF ~gameOver /\ gameOver'
     THEN deathAnimation' \in TriggerGameOverEffects(d)
     ELSE deathAnimation' = d

\* window keydown, Space
DeathSpace ==
  /\ ~gamePaused
  /\ gameStarted \/ MayStartRound
  /\ \E s \in StartRetryOrFlap(State, pieces) : SessionBecomes(s, MaxFrames)
  /\ last' = Event(SpaceHandler)
  /\ DeathAnimationFollows

\* The last timer of showCountdown: beginGame().
DeathCountdownTimeout ==
  /\ countdownPending
  /\ \E s \in BeginGame([State EXCEPT !.countdownPending = FALSE], pieces) :
       SessionBecomes(s, MaxFrames)
  /\ last' = Event("beginGame")
  /\ DeathAnimationFollows

\* The browser runs the oldest pending gameLoop callback.
DeathTick ==
  /\ pendingLoops > 0
  /\ LET fired == [State EXCEPT
                     !.pendingLoops = @ - 1,
                     !.animationId = IF @ = "live" /\ pendingLoops = 1 THEN "stale" ELSE @]
     IN \E s \in GameLoop(fired, pieces) : SessionBecomes(s, MaxFrames)
  /\ last' = Event("gameLoop")
  /\ DeathAnimationFollows

\* The browser runs the oldest pending deathAnimationLoop callback.
\* deathAnimationId names the latest request: the callback that runs is that
\* one only when no other is pending.
DeathLoopFrame ==
  /\ deathAnimation.loops > 0
  /\ \E dt \in ClockSteps :
       LET d == DeathAnimationLoop([deathAnimation EXCEPT !.loops = @ - 1], dt)
           requested == d.loops = deathAnimation.loops
       IN /\ deathAnimation' = d
          /\ SessionBecomes(
               [State EXCEPT
                  !.deathAnimationId =
                    IF requested THEN "live"
                    ELSE IF @ = "live" /\ deathAnimation.loops = 1 THEN "stale" ELSE @,
                  !.gameOverShown = IF requested THEN @ ELSE TRUE],
               MaxFrames)
  /\ last' = [Event("deathAnimationLoop") EXCEPT
               !.ret = deathAnimation'.loops < deathAnimation.loops]

DeathNext == DeathSpace \/ DeathCountdownTimeout \/ DeathTick \/ DeathLoopFrame

DeathSpec == Init /\ [][DeathNext]_vars

(***************************************************************************)
(* Properties of the session (checked under Spec)                          *)
(***************************************************************************)
\* C1: after a death, the retry resets the fragment model before the new
\* round plays: when the round begins every non-space piece is uncollected
\* and every space is collected.
C1_RetryResetsPuzzle ==
  [][(gameOver /\ gameStarted' /\ last'.op \in {"startGame", "resetGame"}) =>
       \A i \in 1..Len(pieces) : collectedPieces'[i] = (pieces[i] = SPACE)]_vars

EqualIgnoringCase(a, b) == ToLowerCase(a) = ToLowerCase(b)

\* C10: a guess equal to the phrase ignoring case, submitted while Paused,
\* completes the puzzle, leaves Paused and enters Victory (the victory
\* display is scheduled) in the same step: no tick runs, and the avatar,
\* the pickups, the obstacles, the queue and the score are left as they are.
C10_CorrectGuessWins ==
  [][(gamePaused /\ last'.op = "submitGuess"
        /\ EqualIgnoringCase(last'.val, originalPhrase)) =>
       /\ IsComplete(collectedPieces')
       /\ ~gamePaused' /\ ~gameStarted' /\ ~gameOver'
       /\ victoryTimers' = victoryTimers + 1
       /\ frameCount' = frameCount
       /\ pendingLoops' = pendingLoops
       /\ UNCHANGED <<player, obstacles, collectibles, piecesToSpawn, score, failCount>>]_vars

\* A guess in another letter case has won while a pickup was still on screen
\* and a piece still in the queue.
C10_Witness ==
  /\ last.op = "submitGuess"
  /\ EqualIgnoringCase(last.val, originalPhrase) /\ last.val # originalPhrase
  /\ IsComplete(collectedPieces)
  /\ ~gamePaused /\ ~gameStarted /\ ~gameOver /\ victoryTimers = 1
  /\ \E i \in 1..Len(collectibles) : ~collectibles[i].collected
  /\ piecesToSpawn # <<>>

\* The simulation state a guess must not touch.
playVars == <<collectedPieces, player, obstacles, collectibles, piecesToSpawn,
              score, failCount, frameCount, gameStarted, gameOver>>

\* C11 as stated: a submitted text that is not the phrase ignoring case, or is
\* empty, leaves the session Paused and the simulation state unchanged.
C11_Original ==
  [][(gamePaused /\ last'.op = "submitGuess"
        /\ ~EqualIgnoringCase(last'.val, originalPhrase)) =>
       (gamePaused' /\ UNCHANGED playVars)]_vars

\* C11: a submitted text that, with its surrounding whitespace trimmed, is
\* empty or is not the phrase ignoring case leaves the session Paused and the
\* fragment model, avatar, obstacles, pickups, queue, score and fail counter
\* unchanged; Paused is left only by hideGuessModal or by a matching guess,
\* and a loop callback that fires while Paused advances nothing.
C11_WrongGuessStaysPaused ==
  [][/\ (gamePaused /\ last'.op = "submitGuess"
           /\ ~EqualIgnoringCase(Trim(last'.val), originalPhrase)) =>
          (gamePaused' /\ UNCHANGED playVars)
     /\ (gamePaused /\ ~gamePaused') =>
          \/ last'.op = "hideGuessModal"
          \/ /\ last'.op = "submitGuess"
             /\ EqualIgnoringCase(Trim(last'.val), originalPhrase)
     /\ (gamePaused /\ last'.op = "gameLoop") => UNCHANGED playVars]_vars

\* A wrong, non-empty guess was submitted in a round with a pickup on screen,
\* and the session is still Paused.
C11_Witness ==
  /\ last.op = "submitGuess"
  /\ Trim(last.val) # <<>>
  /\ ~EqualIgnoringCase(Trim(last.val), originalPhrase)
  /\ gamePaused /\ gameStarted /\ ~gameOver
  /\ collectibles # <<>> /\ ~IsComplete(collectedPieces)

\* A death: triggerGameOver has run in this step (it is the only writer of
\* gameOver = TRUE, and a tick runs only while gameOver is FALSE).
Death == ~gameOver /\ gameOver'

\* C12: the fail counter changes only by +1 and exactly in the steps in which
\* a death happens, so it never decreases and counts the deaths; a step holds
\* at most one death, a round at most one (after a death no tick runs until
\* a start or retry begins a new round), and start, retry, pause, guess and
\* victory display leave the counter as it is.
C12_FailCountCountsDeaths ==
  [][/\ failCount' = (IF Death THEN failCount + 1 ELSE failCount)
     /\ Death => (~gameStarted' /\ last'.op \in {"gameLoop", "hideGuessModal"})
     /\ (gameOver /\ ~gameOver') => last'.op \in {"startGame", "resetGame", "beginGame"}
     /\ (gameOver /\ gameOver') => frameCount' = frameCount
     /\ last'.op \in {"startGame", "resetGame", "beginGame", "showGuessModal",
                      "submitGuess", "showVictory", "deathAnimationLoop", "flap"}
          => failCount' = failCount]_vars

\* The second death of a session, in a round begun by a retry.
C12_Witness ==
  /\ failCount = 2 /\ gameOver /\ ~gameStarted
  /\ last.op = "gameLoop"

\* The avatar reaches a screen edge in the coming update: gravity and
\* velocity carry it past the top or the bottom of the canvas.
HitsEdge(p) ==
  LET y1 == p.y + p.velocityY + PLAYER_GRAVITY
  IN y1 < 0 \/ y1 + PLAYER_SIZE > canvasHeight

\* C13: a tick of play in which the avatar goes past the top or the bottom
\* of the canvas triggers death in that tick.
C13_EdgeKills ==
  [][(gameStarted /\ ~gameOver /\ ~gamePaused /\ last'.op = "gameLoop"
        /\ HitsEdge(player)) => (gameOver' /\ failCount' = failCount + 1)]_vars

\* C18: in every reachable state at most one gameLoop callback is scheduled.
C18_OneLoopScheduled == pendingLoops <= 1

\* Victory has been triggered: showVictory is scheduled or has run.
VictoryTriggered == victoryTimers + victoryShown > 0

\* C19: once victory has been triggered no step puts the session back into
\* play or runs another tick, and the victory display is not triggered again.
C19_VictoryIsTerminal ==
  [][VictoryTriggered =>
       /\ ~gameStarted'
       /\ frameCount' = frameCount
       /\ pendingLoops' <= pendingLoops
       /\ victoryTimers' + victoryShown' = victoryTimers + victoryShown]_vars

\* C22: in a tick in which the avatar's box collides with an obstacle, death
\* is triggered, no pickup is collected (even one the avatar also overlaps),
\* the fragment model is unchanged and no victory is scheduled.
C22_ObstacleHitWins ==
  [][(/\ last'.op = "gameLoop"
      /\ LoopRuns(State)
      /\ \E i \in 1..Len(obstacles') :
           CollidesWith(obstacles'[i], PlayerBounds(player')))
     => /\ gameOver' /\ ~gameStarted'
        /\ failCount' = failCount + 1
        /\ collectedPieces' = collectedPieces
        /\ \A k \in 1..Len(collectibles') : ~collectibles'[k].collected
        /\ victoryTimers' = victoryTimers]_vars

\* A tick ended in death on an obstacle while the avatar also overlapped a
\* live pickup whose fragment would have completed the phrase.
C22_Witness ==
  /\ last.op = "gameLoop" /\ gameOver /\ failCount = 1
  /\ \E i \in 1..Len(obstacles) : CollidesWith(obstacles[i], PlayerBounds(player))
  /\ \E k \in 1..Len(collectibles) :
       /\ ~collectibles[k].collected
       /\ Intersects(collectibles[k], PlayerBounds(player))
       /\ IsComplete(CollectPiece(pieces, collectedPieces,
                                  collectibles[k].pieceIndex).collected)

\* C23: the tick that completes the phrase leaves play within that tick and
\* schedules the victory display, and after that tick no step advances the
\* avatar, the obstacles, the pickups or the score, or ends in death.
C23_CompletionHaltsLoop ==
  [][/\ (last'.op = "gameLoop" /\ last'.ret)
          => ~gameStarted' /\ victoryTimers' = victoryTimers + 1
     /\ (last.op = "gameLoop" /\ last.ret)
          => /\ player' = player /\ obstacles' = obstacles
             /\ collectibles' = collectibles /\ score' = score
             /\ ~gameOver']_vars

\* The death animation is still running: the game-over screen is not shown yet.
Dying == gameOver /\ deathAnimationId = "live" /\ ~gameOverShown
\* The first start's countdown is on screen and no round has begun.
InCountdown == countdownPending /\ ~gameStarted
\* The game-over screen is shown.
InGameOver == gameOver /\ gameOverShown
\* A Space, click or tap has been handled.
StartInput == last'.op \in {"startGame", "resetGame", "flap"}

\* C24: play is entered again only by the retry from the game-over screen (the
\* first entry being the end of the countdown), and while the session is dying
\* or counting down a Space, click or tap begins no round.
C24_NoStartWhileDyingOrCounting ==
  [][/\ (~gameStarted /\ gameStarted')
          => \/ InGameOver /\ StartInput
             \/ InCountdown /\ last'.op = "beginGame"
     /\ ((Dying \/ InCountdown) /\ StartInput)
          => ~gameStarted' /\ frameCount' = frameCount /\ obstacles' = obstacles]_vars

\* C32: while the guess dialog stays open no step changes the avatar, the
\* obstacles, the pickups, the pending queue, the score, the frame counter or
\* the fragment model; cancelling the guess runs the loop on from that state
\* (one tick) and leaves exactly one frame callback scheduled.
C32_PausedIsFrozen ==
  [][/\ (gamePaused /\ gamePaused')
          => UNCHANGED <<player, obstacles, collectibles, piecesToSpawn, score,
                         frameCount, collectedPieces>>
     /\ (gamePaused /\ last'.op = "hideGuessModal")
          => /\ ~gamePaused'
             /\ frameCount' = frameCount + 1
             /\ pendingLoops' = 1]_vars

\* The four conditions of the session, read off the flags.
NotStartedCond == ~gameStarted /\ ~gameOver
PlayingCond == gameStarted /\ ~gamePaused
PausedCond == gamePaused
OverCond == gameOver

\* The number of the four conditions that hold.
ConditionCount ==
  Cardinality({c \in {"notStarted", "playing", "paused", "over"} :
                 \/ c = "notStarted" /\ NotStartedCond
                 \/ c = "playing" /\ PlayingCond
                 \/ c = "paused" /\ PausedCond
                 \/ c = "over" /\ OverCond})

\* C33: in every state at most one of not-started, playing, paused and over
\* holds, and the session becomes paused only from playing.
C33_OneCondition ==
  /\ [](ConditionCount <= 1)
  /\ [][(~gamePaused /\ gamePaused') => (PlayingCond /\ ~OverCond)]_vars

\* The guess dialog has just been opened in a round.
C33_Witness ==
  /\ last.op = "showGuessModal"
  /\ PausedCond /\ gameStarted /\ ~NotStartedCond /\ ~OverCond /\ frameCount > 1

\* C34: gameOver and gameStarted are never both true; a death sets gameOver
\* and clears gameStarted in one step, and a step that begins a round sets
\* gameStarted and clears gameOver in one step.
C34_NeverStartedAndOver ==
  /\ [](~(gameOver /\ gameStarted))
  /\ [][/\ Death => ~gameStarted'
        /\ (~gameStarted /\ gameStarted') => ~gameOver']_vars

\* A retry has just begun a round after a death: gameOver, set by the death,
\* is clear again and the round is running.
C34_Witness ==
  /\ last.op = "startGame" /\ failCount > 0
  /\ gameStarted /\ ~gameOver /\ frameCount = 1

\* The entities of a round: the lists, the avatar, the counters, the queue.
Entities(s) ==
  [obstacles |-> s.obstacles, collectibles |-> s.collectibles, player |-> s.player,
   score |-> s.score, frameCount |-> s.frameCount, piecesToSpawn |-> s.piecesToSpawn]

\* The clean state a round is to begin from: no obstacle, no pickup, the
\* avatar at mid-height and at rest, score and frame counter 0, the pending
\* queue in the given order.
CleanStart(order) ==
  [State EXCEPT !.gameStarted = TRUE, !.gameOver = FALSE,
                !.collectedPieces = collectedPieces',
                !.obstacles = <<>>, !.collectibles = <<>>,
                !.player = NewPlayer,
                !.score = 0, !.frameCount = 0,
                !.piecesToSpawn = order]

\* The step begins a round and the round before it ended in a death.
RoundStartAfterDeath ==
  gameOver /\ last'.op \in {"startGame", "resetGame", "beginGame"}

\* C35: a round begun after a death begins from a clean entity state: what
\* the step leaves is what the first call of gameLoop makes of empty
\* obstacle and pickup lists, an avatar at mid-height with velocity 0, score
\* and frame counter 0 and a pending queue that is a permutation of
\* getUniqueNonSpaceIndices().
C35_CleanRoundStart ==
  [][RoundStartAfterDeath =>
       \E order \in ShuffleOrders(GetUniqueNonSpaceIndices(pieces)) :
         \E u \in GameLoop(CleanStart(order), pieces) :
           Entities(u) = Entities(State')]_vars

\* The counts the HUD shows are the fragment model's.
HudCountsCurrent ==
  /\ hud.collected = GetCollectedNonSpaceCount(pieces, collectedPieces)
  /\ hud.total = GetNonSpaceCount(pieces)

DeathLoopRan == last'.op = "deathAnimationLoop"
ScreenShown == DeathLoopRan /\ last'.ret

\* The animation's duration has passed since the latest death and the death
\* effects have settled.
AnimationOver(d) == d.sinceDeath >= DEATH_ANIMATION_DURATION /\ d.effects = 0

\* C37: after a death the game-over screen is shown by the first call of
\* deathAnimationLoop that finds both the animation's duration elapsed since
\* the death and the death effects settled, not by an earlier one, and it is
\* shown at most once per death.
C37_ScreenAfterAnimation ==
  /\ [](deathAnimation.shown <= 1)
  /\ [][/\ ScreenShown => AnimationOver(deathAnimation')
        /\ (DeathLoopRan /\ AnimationOver(deathAnimation')) => ScreenShown]_vars

(***************************************************************************)
(* Properties of whole rounds (checked under RoundSpec)                    *)
(***************************************************************************)
\* The step is a gameLoop callback that runs update().
RunsTick == last'.op = "gameLoop" /\ LoopRuns(State)

\* The fragment index i is collected.
Collected(i) == collectedPieces[i + 1]

\* The pickups that leave the screen in the coming tick with their fragment
\* still uncollected, in list order.
Missed ==
  SelectSeq(collectibles,
            LAMBDA c : /\ IsOffScreen(c.x - SCROLL_SPEED, COLLECTIBLE_SIZE)
                       /\ ~c.collected /\ ~Collected(c.pieceIndex))

\* C25: in a tick, the indices of the pickups that leave the screen still
\* uncollected are appended to the end of the pending queue (and nothing else
\* is), every off-screen pickup is removed, and a pickup whose fragment is
\* already collected is removed without being queued again.
C25_MissedPickupRequeued ==
  [][RunsTick =>
       LET n == Len(Missed)
           m == Len(piecesToSpawn')
       IN /\ m >= n
          /\ \A j \in 1..n : piecesToSpawn'[m - n + j] = Missed[j].pieceIndex
          /\ \E k \in 0..Len(piecesToSpawn) :
               SubSeq(piecesToSpawn', 1, m - n)
                 = SubSeq(piecesToSpawn, k + 1, Len(piecesToSpawn))
          /\ \A k \in 1..Len(collectibles') :
               ~IsOffScreen(collectibles'[k].x, COLLECTIBLE_SIZE)
          /\ \A i \in 1..Len(collectibles) :
               collectibles[i].collected \/ Collected(collectibles[i].pieceIndex)
                 => ~\E k \in 1..Len(collectibles') :
                       /\ collectibles'[k].pieceIndex = collectibles[i].pieceIndex
                       /\ collectibles'[k].x = collectibles[i].x - SCROLL_SPEED]_vars

\* A tick has just queued a missed fragment again: the queue, emptied by the
\* spawns so far, holds the one index, which is uncollected and off screen.
C25_Witness ==
  /\ last.op = "gameLoop" /\ gameStarted
  /\ score > 0
  /\ Len(piecesToSpawn) = 1
  /\ ~Collected(piecesToSpawn[1])
  /\ \A k \in 1..Len(collectibles) : collectibles[k].pieceIndex # piecesToSpawn[1]
  /\ \E k \in 1..Len(collectibles) : collectibles[k].pieceIndex # piecesToSpawn[1]

\* The fragment indices a round offers as pickups.
OfferedIndices ==
  UNION {Range(GetUniqueNonSpaceIndices(splitPhrase(p))) : p \in GamePhrases}

\* A live pickup for fragment i is on screen.
OnOffer(i) ==
  \E k \in 1..Len(collectibles) :
    collectibles[k].pieceIndex = i /\ ~collectibles[k].collected

\* Fragment i waits in the pending queue.
Queued(i) == \E k \in 1..Len(piecesToSpawn) : piecesToSpawn[k] = i

\* While a round is played every uncollected fragment is on offer or queued.
NeverLost ==
  gameStarted => \A i \in Range(GetUniqueNonSpaceIndices(pieces)) :
                   Collected(i) \/ OnOffer(i) \/ Queued(i)

\* C26 (with the frame callback always called again): while the round is
\* played no uncollected fragment is lost, and a fragment back in the queue
\* after its pickup left the screen is offered again by a later obstacle,
\* unless the round ends, the fragment is collected, or the round reaches
\* MaxRoundFrames ticks first.
C26_MissedFragmentOfferedAgain ==
  /\ []NeverLost
  /\ \A i \in OfferedIndices :
       (gameStarted /\ Queued(i) /\ ~Collected(i))
         ~> (OnOffer(i) \/ Collected(i) \/ ~gameStarted
               \/ frameCount >= MaxRoundFrames)

\* The column a pickup is in at the end of the tick that spawned it.
SpawnColumn ==
  canvasWidth + OBSTACLE_MARGIN + OBSTACLE_WIDTH + COLLECTIBLE_OFFSET - SCROLL_SPEED

\* A fragment is on offer for the second time: three obstacles have been
\* passed, so both first pickups are gone, and a fresh pickup has just been
\* spawned with the fourth.
C26_Witness ==
  /\ last.op = "gameLoop" /\ gameStarted
  /\ score >= 3
  /\ \E k \in 1..Len(collectibles) :
       /\ collectibles[k].x = SpawnColumn
       /\ ~collectibles[k].collected /\ ~Collected(collectibles[k].pieceIndex)

\* The positions of the live pickups in the list.
Live == {k \in 1..Len(collectibles) : ~collectibles[k].collected}

\* C27: no two live pickups are for the same fragment index, and no two carry
\* the same character.
C27_OneLivePickupPerFragment ==
  \A k1, k2 \in Live :
    k1 # k2 => /\ collectibles[k1].pieceIndex # collectibles[k2].pieceIndex
               /\ collectibles[k1].pieceText # collectibles[k2].pieceText

\* Two live pickups are on screen late in a round: four obstacles have been
\* passed, so both are second offers of fragments missed before.
C27_Witness ==
  /\ gameStarted /\ score >= 4
  /\ Cardinality(Live) = 2

\* The step ran update(): by a frame callback or a resume, or in the
\* gameLoop() call that ends beginGame.
RanUpdate ==
  frameCount' # frameCount \/ last'.op \in {"startGame", "resetGame", "beginGame"}

\* The positions in the next state's list of the pickups spawned by the step:
\* after the tick that spawned it a pickup is in the spawn column, and no
\* older pickup is.
Spawned ==
  IF ~RanUpdate THEN {}
  ELSE {k \in 1..Len(collectibles') : collectibles'[k].x = SpawnColumn}

\* C28: the pending queue holds non-space indices only, and a pickup is never
\* spawned for a fragment that is collected at spawn time, nor for a space.
C28_NoPickupForCollectedOrSpace ==
  [][/\ \A k \in 1..Len(piecesToSpawn') : pieces[piecesToSpawn'[k] + 1] # SPACE
     /\ \A k \in Spawned :
          /\ ~Collected(collectibles'[k].pieceIndex)
          /\ pieces[collectibles'[k].pieceIndex + 1] # SPACE
          /\ collectibles'[k].pieceText = pieces[collectibles'[k].pieceIndex + 1]]_vars

\* A retry has just begun a round with a letter still collected from the round
\* before: the queue was seeded with both letters, the collected one was
\* discarded from its head, and the pickup spawned is for the other.
C28_Witness ==
  /\ last.op = "startGame" /\ gameStarted /\ failCount > 0 /\ frameCount = 1
  /\ \E i \in Range(GetUniqueNonSpaceIndices(pieces)) : Collected(i)
  /\ piecesToSpawn = <<>>
  /\ Len(collectibles) = 1
  /\ collectibles[1].x = SpawnColumn
  /\ ~Collected(collectibles[1].pieceIndex)

\* The column an obstacle is in at the end of the tick that spawned it.
ObstacleSpawnColumn == canvasWidth + OBSTACLE_MARGIN - SCROLL_SPEED

\* The positions in the next state's list of the obstacles spawned by the step.
SpawnedObstacles ==
  IF ~RanUpdate THEN {}
  ELSE {k \in 1..Len(obstacles') : obstacles'[k].x = ObstacleSpawnColumn}

\* The test of spawnObstacles, on the list as the tick finds it.
SpawnDue ==
  \/ obstacles = <<>>
  \/ obstacles[Len(obstacles)].x < canvasWidth - OBSTACLE_SPAWN_DISTANCE

\* C29: a playing tick spawns at most one obstacle, and spawns one exactly
\* when the list is empty or its last obstacle's x is below canvasWidth -
\* spawnDistance; a step creates no more pickups than obstacles, and every
\* other pickup in the list was there before the step.
C29_OneObstaclePerSpawn ==
  [][/\ RunsTick =>
          /\ Cardinality(SpawnedObstacles) <= 1
          /\ Cardinality(SpawnedObstacles) = 1 <=> SpawnDue
     /\ Cardinality(Spawned) <= Cardinality(SpawnedObstacles)
     /\ \A k \in (1..Len(collectibles')) \ Spawned :
          \E j \in 1..Len(collectibles) :
            /\ collectibles[j].pieceIndex = collectibles'[k].pieceIndex
            /\ collectibles[j].y = collectibles'[k].y
            /\ collectibles'[k].x \in {collectibles[j].x, collectibles[j].x - SCROLL_SPEED}]_vars

\* A tick in mid-round has just spawned an obstacle with its pickup, and
\* another has spawned an obstacle alone: here the former.
C29_Witness ==
  /\ last.op = "gameLoop" /\ gameStarted /\ score > 0
  /\ \E k \in 1..Len(obstacles) : obstacles[k].x = ObstacleSpawnColumn
  /\ \E k \in 1..Len(collectibles) : collectibles[k].x = SpawnColumn

\* The obstacles the avatar's x exceeds for the first time in the coming tick:
\* the ones hasPassed answers true for.
NewlyPassed ==
  {k \in 1..Len(obstacles) :
     /\ ~obstacles[k].passed
     /\ PLAYER_X > obstacles[k].x - SCROLL_SPEED + obstacles[k].width}

\* The step begins a round.
BeginsRound == last'.op \in {"startGame", "resetGame", "beginGame"}

\* C30: an obstacle is flagged passed from the first tick in which the
\* avatar's x exceeds its right edge, and hasPassed answers true for it in
\* that tick only; a tick adds to the score the number of obstacles passed in
\* it; a round begins with score 0 and no other step changes the score.
C30_ScoreCountsPassed ==
  [][/\ RunsTick => score' = score + Cardinality(NewlyPassed)
     /\ BeginsRound /\ gameStarted' => score' = 0
     /\ ~BeginsRound => score' >= score
     /\ ~RanUpdate => score' = score
     /\ \A k \in 1..Len(obstacles') :
          obstacles'[k].passed <=> PLAYER_X > obstacles'[k].x + obstacles'[k].width]_vars

\* Two obstacles have been passed and scored; the second is still in the
\* list, flagged, behind the avatar, and the third is ahead, unflagged.
C30_Witness ==
  /\ last.op = "gameLoop" /\ gameStarted /\ score = 2
  /\ \E k \in 1..Len(obstacles) : obstacles[k].passed
  /\ \E k \in 1..Len(obstacles) : ~obstacles[k].passed

TickRan ==
  \/ frameCount' # frameCount
  \/ last'.op \in {"startGame", "resetGame", "beginGame"} /\ frameCount' = 1

\* How often fragment index i occurs in the spawn pipeline: in the pending
\* queue and as the index of a live pickup.
InPipeline(i) ==
  Cardinality({k \in 1..Len(piecesToSpawn) : piecesToSpawn[k] = i})
    + Cardinality({k \in Live : collectibles[k].pieceIndex = i})

\* C38: at the end of every tick, each representative index whose character
\* is still uncollected occurs exactly once in the pending queue and the live
\* pickups together.
C38_FragmentsOnceInPipeline ==
  [][TickRan =>
       \A i \in Range(GetUniqueNonSpaceIndices(pieces)) :
         ~Collected(i)' => InPipeline(i)' = 1]_vars

\* Late in a round one uncollected fragment, missed before, waits in the
\* queue while the other is on screen as a live pickup.
C38_Witness ==
  /\ last.op = "gameLoop" /\ gameStarted /\ score >= 3
  /\ \E i, j \in Range(GetUniqueNonSpaceIndices(pieces)) :
       /\ ~Collected(i) /\ ~Collected(j)
       /\ Queued(i) /\ ~OnOffer(i)
       /\ OnOffer(j) /\ ~Queued(j)

(***************************************************************************)
(* Properties of one obstacle (checked under ObstacleSpec)                 *)
(***************************************************************************)
OverlapsHorizontally(o, b) == b.x + b.width > o.x /\ b.x < o.x + o.width
InsideGap(o, b) ==
  /\ b.y >= GapBounds(o).y
  /\ b.y + b.height <= GapBounds(o).y + GapBounds(o).height
FullyAbove(o, b) == b.y + b.height <= TopHeight(o)
FullyBelow(o, b) == b.y >= BottomY(o)

\* C14: for an obstacle of any theme, a box that overlaps it horizontally
\* does not collide if it lies inside the gap and collides if it lies fully
\* above topHeight or fully below bottomY; a box that does not overlap it
\* horizontally does not collide; with gapY = 200 and gapSize = 150 the
\* edges are 125 and 275.
C14_GapAndPipes ==
  last.op = "collidesWith" =>
    LET o == obstacles[1]
        b == PlayerBounds(player)
    IN /\ (o.gapY = 200 /\ o.gapSize = 150) => (TopHeight(o) = 125 /\ BottomY(o) = 275)
       /\ ~OverlapsHorizontally(o, b) => ~last.ret
       /\ (OverlapsHorizontally(o, b) /\ InsideGap(o, b)) => ~last.ret
       /\ (OverlapsHorizontally(o, b) /\ (FullyAbove(o, b) \/ FullyBelow(o, b)))
            => last.ret

(***************************************************************************)
(* Properties of the avatar (checked under PlayerSpec and PlayerFallSpec)  *)
(***************************************************************************)
\* The update just made had to clamp: gravity and velocity carried the
\* avatar past the top or the bottom.
Clamped ==
  LET y1 == last.before.y + last.before.velocityY + last.before.gravity
  IN y1 < 0 \/ y1 + last.before.height > last.index

\* C15: after every update(canvasHeight), whatever the position and velocity
\* before it and whatever flaps came before, 0 <= y <= canvasHeight - height,
\* and if the update clamped the position the velocity is 0.
C15_UpdateClamps ==
  last.op = "update" =>
    /\ InBounds(player, last.index)
    /\ Clamped => player.velocityY = 0

\* An update that followed a flap has clamped the avatar at the top edge,
\* and one has clamped it at the bottom edge.
C15_Witness ==
  /\ last.op = "update" /\ Clamped /\ player.velocityY = 0
  /\ \/ last.prevOp = "flap" /\ player.y = 0 /\ last.before.velocityY < 0
     \/ player.y = last.index - player.height /\ last.before.velocityY > 0

\* C16: from any position in bounds and any velocity, updates with no flap
\* bring the avatar to y = canvasHeight - height, where it stays, and y is
\* in [0, canvasHeight - height] all the way.
C16_FallsToFloor ==
  /\ [](InBounds(player, last.index))
  /\ <>[](player.y = last.index - player.height)

\* An update has brought the falling avatar down onto the floor.
C16_Witness ==
  /\ last.op = "update"
  /\ player.y = last.index - player.height
  /\ last.before.y < player.y
  /\ last.prevOp = "update"

\* C17: flap() sets the velocity to flapStrength whatever it was and changes
\* nothing else, so flaps do not accumulate; a flap followed by an update
\* that does not clamp leaves velocity flapStrength + gravity, which is
\* -9.4 for gravity 0.6 and flapStrength -10.
C17_FlapSetsVelocity ==
  /\ last.op = "flap" =>
       player = [last.before EXCEPT !.velocityY = last.before.flapStrength]
  /\ (last.op = "update" /\ last.prevOp = "flap" /\ ~Clamped) =>
       /\ player.velocityY = player.flapStrength + player.gravity
       /\ (player.gravity = 6 /\ player.flapStrength = -100) => player.velocityY = -94

\* With gravity 0.6 and flapStrength -10 a flap made at another velocity was
\* followed by an update that did not clamp: the velocity is -9.4.
C17_Witness ==
  /\ last.op = "update" /\ last.prevOp = "flap" /\ ~Clamped
  /\ player.gravity = 6 /\ player.flapStrength = -100
  /\ player.velocityY = -94

(***************************************************************************)
(* Properties of the ImagePuzzle (checked under ImagePuzzleSpec)           *)
(***************************************************************************)
\* C20 for the ImagePuzzle: collectedPieces is as long as pieces in every
\* state, and collectPiece with an index outside [0, length) returns false
\* and changes nothing.
C20_ImageLengthAndRange ==
  /\ Len(imagePuzzle.collectedPieces) = Len(imagePuzzle.pieces)
  /\ (last.op = "collectPiece"
        /\ (last.index < 0 \/ last.index >= Len(last.before.pieces)))
       => (~last.ret /\ imagePuzzle = last.before)

\* C21: in image mode collectPiece(i) marks tile i and no other, returns
\* true exactly when tile i was uncollected before; resetCollected() leaves
\* every tile uncollected; isComplete() is true exactly when all 8 tiles are
\* collected.
C21_ImageCollectsExactIndex ==
  /\ last.op = "collectPiece" =>
       /\ imagePuzzle = [last.before EXCEPT !.collectedPieces[last.index + 1] = TRUE]
       /\ last.ret = ~last.before.collectedPieces[last.index + 1]
  /\ last.op = "resetCollected" =>
       \A i \in 1..Len(imagePuzzle.collectedPieces) : ~imagePuzzle.collectedPieces[i]
  /\ Len(imagePuzzle.collectedPieces) = 8
  /\ ImageIsComplete(imagePuzzle) <=>
       Cardinality({i \in 1..8 : imagePuzzle.collectedPieces[i]}) = 8

\* The eighth tile has just been collected.
C21_Witness ==
  /\ last.op = "collectPiece" /\ last.ret
  /\ ImageIsComplete(imagePuzzle) /\ ~ImageIsComplete(last.before)

(***************************************************************************)
(* Properties of the fragment model (checked under PuzzleSpec)             *)
(***************************************************************************)
InRange(index) == index >= 0 /\ index < Len(pieces)
\* The indices (1-based) that hold the same piece as JS index `index`.
SameAs(index) == {j \in 1..Len(pieces) : pieces[j] = pieces[index + 1]}

\* C2: collectPiece(i) with a valid i marks exactly the indices holding the
\* same character as i, changes nothing else, and raises getCollectedCount()
\* by the number of those that were uncollected before the call.
C2_CollectMarksDuplicates ==
  (last.op = "collectPiece" /\ InRange(last.index)) =>
    /\ \A j \in 1..Len(pieces) :
         collectedPieces[j] = (last.before[j] \/ j \in SameAs(last.index))
    /\ GetCollectedCount(collectedPieces) =
         GetCollectedCount(last.before)
           + Cardinality({j \in SameAs(last.index) : ~last.before[j]})

\* "AB BA": collecting index 0 has marked both 'A' positions (count 1 -> 3).
C2_Witness ==
  /\ pieces = ScenarioPhrase
  /\ last.op = "collectPiece" /\ last.index = 0 /\ last.ret
  /\ GetCollectedCount(last.before) = 1
  /\ GetCollectedCount(collectedPieces) = 3

\* C3: collectPiece(index) returns false and changes nothing when the index
\* is out of range or the piece at it is already collected; it returns true
\* exactly when at least one entry was newly marked.
C3_CollectNoOp ==
  last.op = "collectPiece" =>
    /\ (~InRange(last.index) \/ last.before[last.index + 1]) =>
         (~last.ret /\ collectedPieces = last.before)
    /\ last.ret <=> (\E j \in 1..Len(pieces) : collectedPieces[j] /\ ~last.before[j])

\* An already-collected letter is collected again: false, nothing changes.
C3_Witness ==
  /\ last.op = "collectPiece" /\ InRange(last.index)
  /\ pieces[last.index + 1] # SPACE
  /\ last.before[last.index + 1]
  /\ ~last.ret

\* C4: every space position is collected in every state: at construction,
\* after collectPiece and after resetCollected.
C4_SpacesStayCollected ==
  \A i \in 1..Len(pieces) : pieces[i] = SPACE => collectedPieces[i]

\* A reset that cleared a collected letter and kept the space.
C4_Witness ==
  /\ last.op = "resetCollected"
  /\ \E i \in 1..Len(pieces) : pieces[i] = SPACE /\ collectedPieces[i]
  /\ \E j \in 1..Len(pieces) : pieces[j] # SPACE /\ last.before[j] /\ ~collectedPieces[j]

\* C5: getUniqueNonSpaceIndices() returns the index of the first occurrence
\* of every distinct non-space character, once each, in increasing order,
\* and no space index; for "AB BA" it returns <<0, 1>>.
C5_UniqueIndices ==
  last.op = "getUniqueNonSpaceIndices" =>
    LET u == last.val
    IN /\ \A k \in 1..Len(u) : u[k] \in 0..(Len(pieces) - 1)
       /\ \A k \in 1..Len(u) : pieces[u[k] + 1] # SPACE
       /\ \A k \in 1..Len(u) : \A j \in 1..u[k] : pieces[j] # pieces[u[k] + 1]
       /\ \A k \in 1..(Len(u) - 1) : u[k] < u[k + 1]
       /\ \A i \in 1..Len(pieces) :
            pieces[i] # SPACE => \E k \in 1..Len(u) : pieces[u[k] + 1] = pieces[i]
       /\ Len(u) = Cardinality(Range(pieces) \ {SPACE})
       /\ pieces = ScenarioPhrase => u = <<0, 1>>

C5_Witness ==
  /\ pieces = ScenarioPhrase
  /\ last.op = "getUniqueNonSpaceIndices"
  /\ Len(last.val) = 2

\* C6: the puzzle is complete exactly when every representative index of
\* getUniqueNonSpaceIndices() is collected; so collecting representatives in
\* any order completes it with the last one and not before.
C6_CompleteIffRepresentatives ==
  LET u == GetUniqueNonSpaceIndices(pieces)
  IN /\ IsComplete(collectedPieces) <=> (\A k \in 1..Len(u) : collectedPieces[u[k] + 1])
     /\ (last.op = "collectPiece" /\ IsComplete(collectedPieces) /\ ~IsComplete(last.before)) =>
          /\ last.ret
          /\ \E k \in 1..Len(u) :
               /\ pieces[u[k] + 1] = pieces[last.index + 1]
               /\ \A m \in 1..Len(u) : m # k => last.before[u[m] + 1]

\* "AB BA": the second representative has just completed the puzzle.
C6_Witness ==
  /\ pieces = ScenarioPhrase
  /\ last.op = "collectPiece" /\ last.index \in {0, 1} /\ last.ret
  /\ ~IsComplete(last.before)
  /\ IsComplete(collectedPieces)

\* C7 as stated: isComplete() is true iff getReconstructedPhrase() contains
\* no '_'.
C7_Original ==
  last.op = "getReconstructedPhrase" =>
    (last.ret <=> PLACEHOLDER \notin Range(last.val))

\* C7 as amended: a reconstruction without '_' means the puzzle is complete,
\* and for a payload that contains no '_' itself, a complete puzzle has a
\* reconstruction without '_'.
C7_CompleteIffNoPlaceholder ==
  last.op = "getReconstructedPhrase" =>
    /\ PLACEHOLDER \notin Range(last.val) => last.ret
    /\ PLACEHOLDER \notin Range(pieces) =>
         (last.ret <=> PLACEHOLDER \notin Range(last.val))

C7_Witness ==
  /\ last.op = "getReconstructedPhrase"
  /\ pieces = ScenarioPhrase
  /\ last.ret
  /\ last.val = ScenarioPhrase

\* C8 as stated: right after construction the reconstruction is the payload
\* with every non-whitespace character replaced by '_' and every whitespace
\* character unchanged.
C8_Original ==
  (last.op = "getReconstructedPhrase" /\ last.prevOp = "init") =>
    /\ Len(last.val) = Len(originalPhrase)
    /\ \A i \in 1..Len(originalPhrase) :
         last.val[i] = IF IsWhitespace(originalPhrase[i])
                       THEN originalPhrase[i] ELSE PLACEHOLDER

\* C8 as amended: right after construction the reconstruction is the payload
\* with every character other than the space ' ' replaced by '_' (other
\* whitespace included) and every space unchanged.
C8_FreshReconstruction ==
  (last.op = "getReconstructedPhrase" /\ last.prevOp = "init") =>
    /\ Len(last.val) = Len(originalPhrase)
    /\ \A i \in 1..Len(originalPhrase) :
         last.val[i] = IF originalPhrase[i] = SPACE THEN SPACE ELSE PLACEHOLDER

C8_Witness ==
  /\ last.op = "getReconstructedPhrase" /\ last.prevOp = "init"
  /\ originalPhrase = ScenarioPhrase
  /\ last.val = <<PLACEHOLDER, PLACEHOLDER, SPACE, PLACEHOLDER, PLACEHOLDER>>

\* C9: resetCollected() followed by getReconstructedPhrase() gives the string,
\* and leaves the collectedPieces array, of a freshly constructed Puzzle of
\* the same payload.
C9_ResetEqualsFresh ==
  (last.op = "getReconstructedPhrase" /\ last.prevOp = "resetCollected") =>
    LET freshPieces == splitPhrase(originalPhrase)
        fresh == NewCollected(freshPieces)
    IN /\ collectedPieces = fresh
       /\ last.val = GetReconstructedPhrase(freshPieces, fresh)

\* The reset undid at least one collected letter.
C9_Witness ==
  /\ last.op = "getReconstructedPhrase" /\ last.prevOp = "resetCollected"
  /\ \E i \in 1..Len(pieces) : pieces[i] # SPACE /\ last.before[i]
  /\ PLACEHOLDER \in Range(last.val)

====
